---- MODULE Spec2Model ----
(***************************************************************************)
(* Model of the synthetic-telemetry generator (apps/backend/ai_generate.py) *)
(* and of the two ridge trainers (ai_train.py, ai_power_train.py).          *)
(*                                                                         *)
(* Units.  Time is in seconds since the epoch Monday 2026-01-05T00:00Z.    *)
(* Power is in whole watts, contracted power in VA (kVA x 1000), prices in  *)
(* milli-EUR per kWh, costs in micro-EUR, temperatures in tenths of a      *)
(* degree, factors in per-mille.  Products that the code keeps as doubles  *)
(* are rounded down to the unit after each multiplication.                 *)
(***************************************************************************)
EXTENDS Integers, Sequences, FiniteSets, TLC

VARIABLES
  customers,        \* store: rows of table customers (a set of profiles)
  telemetry,        \* store: committed rows of customer_telemetry_15m, in insertion order
  txn,              \* store: rows inserted by the open transaction, not yet committed
  now,              \* wall clock (_now_utc), seconds since the epoch
  pc,               \* generator process: "stopped", "killed", "rolled_back", "wait", "build", "insert", "sleep"
  args,             \* generator process: the parsed command line
  loaded,           \* generator process: the list customers of main
  cur_ts,           \* generate_steps: ts
  steps_left,       \* generate_steps: iterations of the for loop still to run
  rng,              \* generate_steps: state of rng
  last_by_customer, \* generate_steps: last_by_customer
  rows,             \* generate_steps: rows of the current tick
  emitted,          \* history: the ticks the running process has committed
  artifact_next,    \* file data/ai_model.json: None, or the payload of ai_train
  artifact_power,   \* file data/ai_power_model.json: None, or the payload of ai_power_train
  last_exit,        \* how the last trainer run ended
  call,             \* pure-function harness: the pending call (function name, arguments)
  ret               \* pure-function harness: the value returned, None before the call

store_vars == <<customers, telemetry, txn>>
proc_vars == <<pc, args, loaded, cur_ts, steps_left, rng, last_by_customer, rows, emitted>>
train_vars == <<artifact_next, artifact_power, last_exit>>
harness_vars == <<call, ret>>
vars == <<customers, telemetry, txn, now, pc, args, loaded, cur_ts, steps_left, rng,
          last_by_customer, rows, emitted, artifact_next, artifact_power, last_exit,
          call, ret>>

(***************************************************************************)
(* Small helpers                                                           *)
(***************************************************************************)
None == <<>>
Some(v) == <<v>>
Max(a, b) == IF a >= b THEN a ELSE b
Min(a, b) == IF a <= b THEN a ELSE b
Abs(a) == IF a >= 0 THEN a ELSE -a

(***************************************************************************)
(* Program constants of ai_generate.py                                     *)
(***************************************************************************)
RATE_EUR_PER_KWH == 200
INTERVAL_MINUTES == 15
IntervalSeconds == INTERVAL_MINUTES * 60
DaySeconds == 24 * 60 * 60

SEGMENTS == <<"residential", "sme", "industrial">>
TARIFFS == <<"Simples", "Bi-horario">>
CoastCities == {"Porto", "Matosinhos", "Vila Nova de Gaia", "Aveiro"}

\* contracted-power tiers create_customers draws from, in VA
ContractedTiers(segment) ==
  IF segment = "residential" THEN {3450, 4600, 5750, 6900, 10350}
  ELSE IF segment = "sme" THEN {10350, 13800, 17250}
  ELSE {17250, 20700, 27600}

(***************************************************************************)
(* Clock arithmetic                                                        *)
(***************************************************************************)
floor_to_15m(ts) == (ts \div IntervalSeconds) * IntervalSeconds

\* ts.replace(second=0, microsecond=0)
TruncToMinute(ts) == (ts \div 60) * 60

next_15m_boundary(ts) ==
  LET ts0 == floor_to_15m(ts)
  IN  IF ts0 = TruncToMinute(ts) THEN ts0 ELSE ts0 + IntervalSeconds

\* hour-of-day in quarter hours (ts.hour + ts.minute / 60.0, on the 15-minute grid)
QuarterOfDay(ts) == (ts % DaySeconds) \div IntervalSeconds
\* ts.weekday(), 0 = Monday (the epoch is a Monday)
Weekday(ts) == (ts \div DaySeconds) % 7
\* ts.timetuple().tm_yday (the epoch is day 5 of its year)
DayOfYear(ts) == 5 + ts \div DaySeconds

(***************************************************************************)
(* Load curves of simulate_watts, tabulated per quarter hour (rounded W)   *)
(***************************************************************************)
\* 220.0 * exp(-((hour - 7.5) ** 2) / 5.5)
MorningBump ==
  <<
     0, 0, 0, 0, 0, 0, 0, 1, 1, 1, 2, 4, 6, 8, 12, 17,
     24, 32, 43, 56, 71, 88, 106, 126, 146, 166, 183, 199, 210, 218, 220, 218,
     210, 199, 183, 166, 146, 126, 106, 88, 71, 56, 43, 32, 24, 17, 12, 8,
     6, 4, 2, 1, 1, 1, 0, 0, 0, 0, 0, 0, 0, 0, 0, 0,
     0, 0, 0, 0, 0, 0, 0, 0, 0, 0, 0, 0, 0, 0, 0, 0,
     0, 0, 0, 0, 0, 0, 0, 0, 0, 0, 0, 0, 0, 0, 0, 0
  >>
\* 380.0 * exp(-((hour - 20.5) ** 2) / 7.0)
EveningBump ==
  <<
     0, 0, 0, 0, 0, 0, 0, 0, 0, 0, 0, 0, 0, 0, 0, 0,
     0, 0, 0, 0, 0, 0, 0, 0, 0, 0, 0, 0, 0, 0, 0, 0,
     0, 0, 0, 0, 0, 0, 0, 0, 0, 0, 0, 0, 0, 0, 0, 0,
     0, 0, 0, 0, 0, 0, 0, 1, 1, 1, 2, 3, 5, 7, 11, 15,
     21, 29, 39, 51, 66, 84, 105, 129, 156, 184, 215, 245, 276, 304, 329, 351,
     367, 377, 380, 377, 367, 351, 329, 304, 276, 245, 215, 184, 156, 129, 105, 84
  >>
\* 900.0 * exp(-((hour - 13.0) ** 2) / 18.0)
BusinessBump ==
  <<
     0, 0, 0, 0, 0, 0, 1, 1, 1, 1, 2, 3, 3, 5, 6, 8,
     10, 13, 16, 21, 26, 32, 40, 49, 59, 72, 86, 103, 122, 143, 168, 195,
     224, 257, 292, 330, 370, 412, 456, 500, 546, 591, 636, 679, 721, 759, 794, 825,
     851, 872, 888, 897, 900, 897, 888, 872, 851, 825, 794, 759, 721, 679, 636, 591,
     546, 500, 456, 412, 370, 330, 292, 257, 224, 195, 168, 143, 122, 103, 86, 72,
     59, 49, 40, 32, 26, 21, 16, 13, 10, 8, 6, 5, 3, 3, 2, 1
  >>
\* 1200.0 * exp(-((hour - 11.0) ** 2) / 26.0)
ShiftBump ==
  <<
     11, 14, 17, 21, 26, 31, 37, 45, 53, 63, 75, 88, 102, 119, 138, 159,
     182, 208, 236, 267, 301, 336, 375, 416, 459, 504, 551, 599, 649, 699, 749, 799,
     849, 897, 944, 988, 1029, 1067, 1101, 1130, 1155, 1174, 1189, 1197, 1200, 1197, 1189, 1174,
     1155, 1130, 1101, 1067, 1029, 988, 944, 897, 849, 799, 749, 699, 649, 599, 551, 504,
     459, 416, 375, 336, 301, 267, 236, 208, 182, 159, 138, 119, 102, 88, 75, 63,
     53, 45, 37, 31, 26, 21, 17, 14, 11, 9, 7, 6, 5, 4, 3, 2
  >>
\* 0.10 + 0.18 * exp(-((hour - 13.0) ** 2) / 4.5), per-mille, for 10 <= hour <= 16
SolarCut ==
  <<
     0, 0, 0, 0, 0, 0, 0, 0, 0, 0, 0, 0, 0, 0, 0, 0,
     0, 0, 0, 0, 0, 0, 0, 0, 0, 0, 0, 0, 0, 0, 0, 0,
     0, 0, 0, 0, 0, 0, 0, 0, 124, 134, 145, 158, 174, 191, 209, 227,
     244, 259, 270, 278, 280, 278, 270, 259, 244, 227, 209, 191, 174, 158, 145, 134,
     124, 0, 0, 0, 0, 0, 0, 0, 0, 0, 0, 0, 0, 0, 0, 0,
     0, 0, 0, 0, 0, 0, 0, 0, 0, 0, 0, 0, 0, 0, 0, 0
  >>
\* 16.0 + 7.0 * sin(2 * pi * (day_of_year - 170) / 365.0), tenths of a degree, days 5..12
SeasonalBase == <<139, 138, 137, 136, 135, 134, 132, 131>>

seasonal_temperature(ts, city) ==
  LET base == SeasonalBase[DayOfYear(ts) - 4]
      coast_bias == IF city \in CoastCities THEN -10 ELSE 0
  IN  base + coast_bias

(***************************************************************************)
(* simulate_watts.  d holds the outcomes of the random draws in the order  *)
(* the code makes them: g_temp and g_noise are standard-normal deviates in *)
(* tenths, u_ev, u_spike and u_amt are values of random() in per-mille.    *)
(***************************************************************************)
InstantLoad(ts, customer, d) ==
  LET q == QuarterOfDay(ts) + 1
      is_weekend == Weekday(ts) >= 5
      curve ==
        IF customer.segment = "residential"
          THEN ((180 + MorningBump[q] + EveningBump[q]) * (IF is_weekend THEN 115 ELSE 100)) \div 100
        ELSE IF customer.segment = "sme"
          THEN ((420 + BusinessBump[q]) * (IF is_weekend THEN 55 ELSE 100)) \div 100
        ELSE 1500 + ShiftBump[q]
      area_factor == Max(700, Min(2200, 1000 + ((customer.home_area_m2 - 80) * 1000) \div 420))
      household_factor == Max(750, Min(2000, 1000 + (customer.household_size - 2) * 80))
      scaled == (((curve * area_factor) \div 1000) * household_factor) \div 1000
      solar == IF customer.has_solar # 0 /\ q - 1 >= 40 /\ q - 1 <= 64
                 THEN (scaled * (1000 - SolarCut[q])) \div 1000
                 ELSE scaled
      ev == IF customer.ev_count > 0 /\ q - 1 <= 24 /\ d.u_ev < 100
              THEN solar + 900 * customer.ev_count
              ELSE solar
  IN  ev

\* the rare spike is added without clamping the sum again
simulate_watts_spike_unclamped(ts, customer, last_watts, d) ==
  LET temp_c == seasonal_temperature(ts, customer.city) + (d.g_temp * 12) \div 10
      load == InstantLoad(ts, customer, d)
      cap == (customer.contracted_power_kva * 92) \div 100
      last == IF last_watts = None THEN load ELSE last_watts[1]
      temp_effect == 18 * Max(0, 190 - temp_c) + 14 * Max(0, temp_c - 250)
      noise == (d.g_noise * Max(12, (3 * load) \div 100)) \div 10
      blend == (700 * load + 250 * last + 5 * temp_effect) \div 1000 + noise
      clamped == Max(40, Min(blend, cap))
      spike == d.u_spike < (IF customer.segment = "residential" THEN 4 ELSE 2)
      watts == IF spike THEN clamped + 800 + (1400 * d.u_amt) \div 1000 ELSE clamped
  IN  [watts |-> watts, temp_c |-> temp_c,
       euros |-> (watts * RATE_EUR_PER_KWH * INTERVAL_MINUTES) \div 60]

simulate_watts(ts, customer, last_watts, d) ==
  LET temp_c == seasonal_temperature(ts, customer.city) + (d.g_temp * 12) \div 10
      load == InstantLoad(ts, customer, d)
      cap == (customer.contracted_power_kva * 92) \div 100
      last == IF last_watts = None THEN load ELSE last_watts[1]
      temp_effect == 18 * Max(0, 190 - temp_c) + 14 * Max(0, temp_c - 250)
      noise == (d.g_noise * Max(12, (3 * load) \div 100)) \div 10
      blend == (700 * load + 250 * last + 5 * temp_effect) \div 1000 + noise
      clamped == Max(40, Min(blend, cap))
      spike == d.u_spike < (IF customer.segment = "residential" THEN 4 ELSE 2)
      watts == IF spike THEN Min(cap, clamped + 800 + (1400 * d.u_amt) \div 1000) ELSE clamped
  IN  [watts |-> watts, temp_c |-> temp_c,
       euros |-> (watts * RATE_EUR_PER_KWH * INTERVAL_MINUTES) \div 60]


(***************************************************************************)
(* random.Random: a deterministic stream fixed by the seed.  The state is  *)
(* a number, every draw advances it by one step of a full-period linear    *)
(* congruential generator.                                                 *)
(***************************************************************************)
RngModulus == 7875
Random(seed) == seed % RngModulus
rng_next(r) == (r * 211 + 1663) % RngModulus
\* rng.random(), per-mille
rng_random(r) == (r * 1000) \div RngModulus
\* rng.gauss(0, 1), tenths: the quantile of the uniform value
rng_gauss(r) ==
  LET u == rng_random(r)
  IN  IF u < 2 THEN -30 ELSE IF u < 23 THEN -20 ELSE IF u < 159 THEN -10
      ELSE IF u < 309 THEN -5 ELSE IF u < 691 THEN 0 ELSE IF u < 841 THEN 5
      ELSE IF u < 977 THEN 10 ELSE IF u < 998 THEN 20 ELSE 30

\* the draws one call of simulate_watts makes, and the state it leaves
rng_draws(r, t, customer) ==
  LET r1 == rng_next(r)
      needs_ev == customer.ev_count > 0 /\ QuarterOfDay(t) <= 24
      r2 == IF needs_ev THEN rng_next(r1) ELSE r1
      r3 == rng_next(r2)
      r4 == rng_next(r3)
      spike == rng_random(r4) < (IF customer.segment = "residential" THEN 4 ELSE 2)
      r5 == IF spike THEN rng_next(r4) ELSE r4
  IN  [d |-> [g_temp |-> rng_gauss(r1), u_ev |-> rng_random(r2), g_noise |-> rng_gauss(r3),
              u_spike |-> rng_random(r4), u_amt |-> rng_random(r5)],
       rng |-> r5]

(***************************************************************************)
(* The store.  A timestamp is stored as the text isoformat() returns:      *)
(* fixed-width fields, most significant first, compared field by field.    *)
(***************************************************************************)
isoformat(t) == <<t \div DaySeconds, (t % DaySeconds) \div 3600, (t % 3600) \div 60, t % 60>>
fromisoformat(s) == s[1] * DaySeconds + s[2] * 3600 + s[3] * 60 + s[4]

\* SQLite's comparison of two TEXT timestamps: a < b
TextLess(a, b) ==
  \E i \in 1..4 : a[i] < b[i] /\ \A j \in 1..(i - 1) : a[j] = b[j]

\* MAX(ts) over a non-empty set of rows
MaxTs(rs) == CHOOSE m \in {r.ts : r \in rs} : \A r \in rs : ~TextLess(m, r.ts)

RowSet(tel) == {tel[i] : i \in 1..Len(tel)}

latest_ts(tel) ==
  IF Len(tel) = 0 THEN None ELSE Some(fromisoformat(MaxTs(RowSet(tel))))

\* generate_steps starting from an empty dict instead of the stored readings
latest_watts_by_customer_unread(tel) == {<<>>}

\* The dictionaries latest_watts_by_customer can return: one entry per customer with
\* rows; when several rows of a customer carry its latest timestamp, the join
\* returns them all in no set order and the dict keeps the last one.
latest_watts_by_customer(tel) ==
  LET ids == {r.customer_id : r \in RowSet(tel)}
      of(id) == {r \in RowSet(tel) : r.customer_id = id}
      cand(id) == {r.watts : r \in {x \in of(id) : x.ts = MaxTs(of(id))}}
  IN  {f \in [ids -> UNION {cand(id) : id \in ids}] : \A id \in ids : f[id] \in cand(id)}

\* load_customers: ORDER BY id ASC
RECURSIVE SortedById(_)
SortedById(cs) ==
  IF cs = {} THEN <<>>
  ELSE LET c == CHOOSE x \in cs : \A y \in cs : x.id <= y.id
       IN  <<c>> \o SortedById(cs \ {c})

load_customers(table) == SortedById(table)

(***************************************************************************)
(* create_customers: count profiles drawn from Random(seed)                *)
(***************************************************************************)
Choice(seq, r) == seq[1 + (rng_random(r) * Len(seq)) \div 1000]

TierSeq(segment) ==
  IF segment = "residential" THEN <<3450, 4600, 5750, 6900, 10350>>
  ELSE IF segment = "sme" THEN <<10350, 13800, 17250>>
  ELSE <<17250, 20700, 27600>>

AreaSeq(segment) ==
  IF segment = "residential" THEN <<45, 70, 95, 130, 180>>
  ELSE IF segment = "sme" THEN <<120, 180, 260, 420>>
  ELSE <<800, 1500, 2600>>

HouseholdSeq(segment) ==
  IF segment = "residential" THEN <<1, 2, 3, 4, 5>>
  ELSE IF segment = "sme" THEN <<3, 5, 8, 12>>
  ELSE <<20, 35, 60>>

CITIES == <<"Porto", "Matosinhos", "Maia", "Vila Nova de Gaia", "Braga", "Aveiro", "Coimbra", "Lisboa">>

\* one iteration of the loop of create_customers, from rng state r
NewCustomer(r) ==
  LET r1 == rng_next(r)
      u == rng_random(r1)
      segment == IF u < 720 THEN "residential" ELSE IF u < 940 THEN "sme" ELSE "industrial"
      r2 == rng_next(r1)
      tariff == IF rng_random(r2) < 700 THEN "Simples" ELSE "Bi-horario"
      r3 == rng_next(r2)
      r4 == rng_next(r3)
      r5 == rng_next(r4)
      r6 == rng_next(r5)
      r7 == rng_next(r6)
      r8 == rng_next(r7)
      r9 == rng_next(r8)
      r10 == rng_next(r9)
  IN  [customer |->
         [id |-> r10, segment |-> segment, city |-> Choice(CITIES, r3),
          contracted_power_kva |-> Choice(TierSeq(segment), r4),
          tariff |-> tariff,
          price_eur_per_kwh |-> Max(80, Min(450, 200 + 3 * rng_gauss(r5))),
          home_area_m2 |-> Choice(AreaSeq(segment), r6),
          household_size |-> Choice(HouseholdSeq(segment), r7),
          has_solar |-> IF segment = "residential" /\ rng_random(r8) < 220 THEN 1 ELSE 0,
          ev_count |-> IF segment = "residential"
                         THEN (IF rng_random(r9) < 780 THEN 0
                               ELSE IF rng_random(r9) < 960 THEN 1 ELSE 2)
                         ELSE 0],
       rng |-> r10]

RECURSIVE CreateFrom(_, _)
CreateFrom(r, count) ==
  IF count = 0 THEN <<>>
  ELSE LET n == NewCustomer(r) IN <<n.customer>> \o CreateFrom(n.rng, count - 1)


SeqToSet(q) == {q[i] : i \in 1..Len(q)}


(***************************************************************************)
(* Bounds of the generator specification                                   *)
(***************************************************************************)
MaxCustomers == 2
MaxSteps == 2
MaxRows == 4
MaxElapsed == 1860
MaxTrainCustomers == 11

Seeds == {42}
\* values of --days
Days == {0, 1}
RunStart == DaySeconds
InitTimes == {RunStart + 30}
MaxClock == RunStart + MaxElapsed
\* seconds one tick of generate_steps can take (simulation, insertion, commit)
ComputeTimes == {0, 60}
\* seconds time.sleep can return late
SleepLags == {0, 30}
\* seconds between two runs of the generator
IdleTimes == {870}
\* --days of ai_train
TrainDays == {0, 1, 14}
\* --lambda and KYNEX_POWER_L2, in tenths
TrainL2 == {0, 20}

\* the command lines; --days and --steps are not read in continuous mode and are
\* left at 0 there
Args ==
  {a \in [realtime : BOOLEAN, days : Days, steps : 0..MaxSteps, seed : Seeds,
          reset_customers : BOOLEAN, customers : 1..MaxCustomers] :
     a.realtime => (a.days = 0 /\ a.steps = 0)}
ResetArgs == {a \in Args : a.reset_customers}
NoArgs == [realtime |-> FALSE, seed |-> 0, reset_customers |-> FALSE]
NoCall == [fn |-> "none"]
NoExit == [proc |-> "none", status |-> "none", msg |-> ""]

\* create_customers for every count and seed the specifications use
Created ==
  [seed \in Seeds |->
     [count \in 0..Max(MaxCustomers, MaxTrainCustomers) |-> CreateFrom(Random(seed), count)]]

create_customers(count, seed) == Created[seed][count]

Get(dict, key) == IF key \in DOMAIN dict THEN Some(dict[key]) ELSE None

\* the inner loop of generate_steps: one row per customer, in list order
RECURSIVE BuildRows(_, _, _, _, _, _)
BuildRows(cs, i, t, last, r, acc) ==
  IF i > Len(cs) THEN [rows |-> acc, last |-> last, rng |-> r]
  ELSE LET c == cs[i]
           dr == rng_draws(r, t, c)
           res == simulate_watts(t, c, Get(last, c.id), dr.d)
           row == [customer_id |-> c.id, ts |-> isoformat(t), watts |-> res.watts,
                   euros |-> res.euros, temp_c |-> res.temp_c]
       IN  BuildRows(cs, i + 1, t, (c.id :> res.watts) @@ last, dr.rng, Append(acc, row))

Init ==
  /\ customers = {}
  /\ telemetry = <<>>
  /\ txn = <<>>
  /\ now \in InitTimes
  /\ pc = "stopped"
  /\ args = NoArgs
  /\ loaded = <<>>
  /\ cur_ts = 0
  /\ steps_left = 0
  /\ rng = 0
  /\ last_by_customer = <<>>
  /\ rows = <<>>
  /\ emitted = <<>>
  /\ artifact_next = None
  /\ artifact_power = None
  /\ last_exit = NoExit
  /\ call = NoCall
  /\ ret = None

\* the process has ended: nothing of its memory is left
ProcessGone ==
  /\ args' = NoArgs
  /\ loaded' = <<>>
  /\ cur_ts' = 0
  /\ steps_left' = 0
  /\ rng' = 0
  /\ last_by_customer' = <<>>
  /\ rows' = <<>>
  /\ emitted' = <<>>

\* the entry of generate_steps(conn, customers, start_ts, steps, seed)
EnterGenerateSteps(tel, start_ts, steps, seed) ==
  /\ \E lw \in latest_watts_by_customer(tel) : last_by_customer' = lw
  /\ rng' = Random(seed)
  /\ cur_ts' = start_ts
  /\ steps_left' = steps
  /\ rows' = <<>>

\* the options main() still reads once the customers are loaded
Parsed(a) ==
  [realtime |-> a.realtime, seed |-> a.seed, reset_customers |-> a.reset_customers]

\* the telemetry table is emptied at every start, whatever the options
DeleteTelemetryAlways(tel, reset_customers) == <<>>
\* main(): DELETE FROM customer_telemetry_15m under --reset-customers
DeleteTelemetry(tel, reset_customers) == IF reset_customers THEN <<>> ELSE tel

\* main() up to the branch on --realtime
Start(a) ==
  /\ pc \in {"stopped", "killed", "rolled_back"}
  /\ LET tel0 == DeleteTelemetry(telemetry, a.reset_customers)
         table0 == IF a.reset_customers THEN {} ELSE customers
         cs0 == load_customers(table0)
         cs == IF cs0 = <<>> THEN create_customers(a.customers, a.seed) ELSE cs0
         last == latest_ts(tel0)
         start == IF last = None THEN floor_to_15m(now - a.days * DaySeconds)
                  ELSE last[1] + IntervalSeconds
     IN  /\ Len(tel0) + (IF a.realtime THEN 1 ELSE a.steps) * Len(cs) <= MaxRows
         /\ telemetry' = tel0
         /\ customers' = SeqToSet(cs)
         /\ txn' = <<>>
         /\ IF a.realtime
              THEN /\ pc' = "wait"
                   /\ args' = Parsed(a)
                   /\ loaded' = cs
                   /\ emitted' = <<>>
                   /\ UNCHANGED <<cur_ts, steps_left, rng, last_by_customer, rows>>
              ELSE IF a.steps > 0
              THEN /\ pc' = "build"
                   /\ args' = Parsed(a)
                   /\ loaded' = cs
                   /\ emitted' = <<>>
                   /\ EnterGenerateSteps(tel0, start, a.steps, a.seed)
              ELSE /\ pc' = "stopped"
                   /\ ProcessGone
  /\ last_exit' = NoExit
  /\ UNCHANGED <<now, call, ret, artifact_next, artifact_power>>

\* the realtime loop from its top to the call of generate_steps
RtWait(lag) ==
  /\ pc = "wait"
  /\ Len(telemetry) + Len(loaded) <= MaxRows
  /\ LET target == next_15m_boundary(now)
         sleep_s == target - now
     IN  /\ now' = IF sleep_s > 0 THEN now + sleep_s + lag ELSE now
         /\ now' <= MaxClock
         /\ EnterGenerateSteps(telemetry, target, 1, args.seed)
  /\ pc' = "build"
  /\ UNCHANGED <<customers, telemetry, txn, args, loaded, emitted, call, ret, train_vars>>

\* generate_steps: the rows of one tick are computed in memory
Build ==
  /\ pc = "build"
  /\ LET b == BuildRows(loaded, 1, cur_ts, last_by_customer, rng, <<>>)
     IN  /\ rows' = b.rows
         /\ last_by_customer' = b.last
         /\ rng' = b.rng
  /\ pc' = "insert"
  /\ UNCHANGED <<customers, telemetry, txn, now, args, loaded, cur_ts, steps_left,
                 emitted, call, ret, train_vars>>

\* executemany inserts the next row of the tick and the store commits it at once
InsertRowAutocommit ==
  /\ pc = "insert"
  /\ Len(txn) < Len(rows)
  /\ telemetry' = Append(telemetry, rows[Len(txn) + 1])
  /\ txn' = Append(txn, rows[Len(txn) + 1])
  /\ UNCHANGED <<customers, now, pc, args, loaded, cur_ts, steps_left, rng,
                 last_by_customer, rows, emitted, artifact_next, artifact_power, last_exit,
                 call, ret>>

\* generate_steps: executemany inserts the next row of the tick in the open transaction
InsertRow ==
  /\ pc = "insert"
  /\ Len(txn) < Len(rows)
  /\ txn' = Append(txn, rows[Len(txn) + 1])
  /\ UNCHANGED <<customers, telemetry, now, pc, args, loaded, cur_ts, steps_left, rng,
                 last_by_customer, rows, emitted, artifact_next, artifact_power, last_exit,
                 call, ret>>

\* generate_steps: conn.commit() and the end of the iteration; e is the time the tick took
Commit(e) ==
  /\ pc = "insert"
  /\ Len(txn) = Len(rows)
  /\ now + e <= MaxClock
  /\ telemetry' = telemetry \o txn
  /\ txn' = <<>>
  /\ now' = now + e
  /\ IF steps_left > 1 \/ args.realtime
       THEN /\ pc' = IF steps_left > 1 THEN "build" ELSE "sleep"
            /\ emitted' = Append(emitted, cur_ts)
            /\ cur_ts' = cur_ts + IntervalSeconds
            /\ steps_left' = steps_left - 1
            /\ UNCHANGED <<args, loaded, rng, last_by_customer, rows>>
       ELSE /\ pc' = "stopped"
            /\ ProcessGone
  /\ UNCHANGED <<customers, call, ret, train_vars>>

\* the realtime loop: time.sleep(INTERVAL_MINUTES * 60)
RtSleep(lag) ==
  /\ pc = "sleep"
  /\ now + IntervalSeconds + lag <= MaxClock
  /\ now' = now + IntervalSeconds + lag
  /\ pc' = "wait"
  /\ UNCHANGED <<customers, telemetry, txn, args, loaded, cur_ts, steps_left, rng,
                 last_by_customer, rows, emitted, artifact_next, artifact_power, last_exit,
                 call, ret>>

\* the process is terminated from outside; the store rolls the open transaction back
Kill ==
  /\ pc \in {"wait", "build", "insert", "sleep"}
  /\ pc' = IF txn # <<>> THEN "rolled_back" ELSE "killed"
  /\ txn' = <<>>
  /\ ProcessGone
  /\ UNCHANGED <<customers, telemetry, now, call, ret, train_vars>>

\* time passes while no generator runs
Idle(dt) ==
  /\ pc \in {"stopped", "killed", "rolled_back"}
  /\ now + dt <= MaxClock
  /\ now' = now + dt
  /\ UNCHANGED <<customers, telemetry, txn, pc, args, loaded, cur_ts, steps_left, rng,
                 last_by_customer, rows, emitted, artifact_next, artifact_power, last_exit,
                 call, ret>>

(***************************************************************************)
(* The trainers (ai_train.py, ai_power_train.py)                           *)
(***************************************************************************)
MIN_TRAIN_SAMPLES == 200
MIN_POWER_CUSTOMERS == 10
StatsWindowDays == 30

\* a <= b on TEXT timestamps
TextLeq(a, b) == a = b \/ TextLess(a, b)

\* ORDER BY ts ASC: rows of equal ts keep their insertion order
RECURSIVE SortRowsByTs(_)
SortRowsByTs(rs) ==
  IF Len(rs) = 0 THEN <<>>
  ELSE LET i == CHOOSE k \in 1..Len(rs) :
                  /\ \A j \in 1..Len(rs) : ~TextLess(rs[j].ts, rs[k].ts)
                  /\ \A j \in 1..(k - 1) : rs[j].ts # rs[k].ts
       IN  <<rs[i]>> \o SortRowsByTs(SubSeq(rs, 1, i - 1) \o SubSeq(rs, i + 1, Len(rs)))

\* ORDER BY left out: the rows in insertion order
SortByTsInsertionOrder(rs) == rs
\* rows already in order are returned as they are
SortByTs(rs) ==
  IF \A j \in 1..(Len(rs) - 1) : TextLeq(rs[j].ts, rs[j + 1].ts) THEN rs
  ELSE SortRowsByTs(rs)

SelectSeq2(rs, cid, since) ==
  LET keep(r) == r.customer_id = cid /\ TextLeq(since, r.ts)
  IN  SelectSeq(rs, keep)

\* the pairs one customer contributes: features of reading i, target of reading i + 1
CustomerPairs(cid, rs) ==
  IF Len(rs) < 3 THEN <<>>
  ELSE [i \in 1..(Len(rs) - 1) |->
          [customer_id |-> cid, ts |-> fromisoformat(rs[i].ts), last_watts |-> rs[i].watts,
           temp_c |-> rs[i].temp_c, target |-> rs[i + 1].watts,
           target_ts |-> fromisoformat(rs[i + 1].ts)]]

RECURSIVE PairsFrom(_, _, _, _)
PairsFrom(tel, cs, i, since) ==
  IF i > Len(cs) THEN <<>>
  ELSE CustomerPairs(cs[i].id, SortByTs(SelectSeq2(tel, cs[i].id, since)))
         \o PairsFrom(tel, cs, i + 1, since)

\* ai_train.load_training_pairs; customer_map is keyed in the order of load_customers
load_training_pairs(tel, customer_map, since) == PairsFrom(tel, customer_map, 1, since)

\* ai_power_train.get_latest_ts
get_latest_ts(tel, cid) ==
  LET of == {r \in RowSet(tel) : r.customer_id = cid}
  IN  IF of = {} THEN None ELSE Some(MaxTs(of))

RECURSIVE SumWatts(_)
SumWatts(rs) == IF Len(rs) = 0 THEN 0 ELSE rs[1].watts + SumWatts(Tail(rs))

\* ai_power_train.get_stats_30d: MAX(watts) and AVG(watts) of the 30 days up to end_iso
get_stats_30d(tel, cid, end_iso) ==
  LET start == isoformat(fromisoformat(end_iso) - StatsWindowDays * DaySeconds)
      in_window(r) == r.customer_id = cid /\ TextLeq(start, r.ts) /\ TextLeq(r.ts, end_iso)
      rs == SelectSeq(tel, in_window)
      peak == IF Len(rs) = 0 THEN 0
              ELSE CHOOSE w \in {rs[i].watts : i \in 1..Len(rs)} :
                     \A i \in 1..Len(rs) : rs[i].watts <= w
      avg == IF Len(rs) = 0 THEN 0 ELSE SumWatts(rs) \div Len(rs)
  IN  [peak |-> peak, avg |-> avg]

CeilDiv(a, b) == (a + b - 1) \div b

SegMargin(segment) ==
  IF segment = "industrial" THEN 15 ELSE IF segment = "sme" THEN 10 ELSE 8

\* math.ceil(base * 10) on the double product.  base_num / 850000 is the exact value
\* of base * 10; when it is a whole number the rounding of the double product decides
\* whether ceil sees it or the next double above it (up).
CeilTenths(base_num, up) ==
  IF base_num % 850000 = 0 /\ up THEN base_num \div 850000 + 1
  ELSE CeilDiv(base_num, 850000)

\* a statistic of zero enters the maximum as zero
target_ideal_kva_no_fallback(customer, peak_watts_30d, avg_watts_30d, up) ==
  LET peak_kva == 100 * peak_watts_30d
      avg_kva == 187 * avg_watts_30d
      base == Max(peak_kva, avg_kva) * (100 + SegMargin(customer.segment))
      kva == CeilTenths(base, up)
  IN  Min(600, Max(10, kva))

\* the fallback of 1.0 kVA taken for a statistic of up to 1 W instead of 0 W only
target_ideal_kva_fallback_to_one_watt(customer, peak_watts_30d, avg_watts_30d, up) ==
  LET peak_kva == IF peak_watts_30d > 1 THEN 100 * peak_watts_30d ELSE 85000
      avg_kva == IF avg_watts_30d > 1 THEN 187 * avg_watts_30d ELSE 85000
      base == Max(peak_kva, avg_kva) * (100 + SegMargin(customer.segment))
      kva == CeilTenths(base, up)
  IN  Min(600, Max(10, kva))

\* target_ideal_kva, in tenths of a kVA.  The two kVA terms are kept over the common
\* denominator 85000: (peak / 1000) / 0.85 = 100 peak / 85000 and
\* (avg / 1000) * 2.2 = 187 avg / 85000.
target_ideal_kva(customer, peak_watts_30d, avg_watts_30d, up) ==
  LET peak_kva == IF peak_watts_30d > 0 THEN 100 * peak_watts_30d ELSE 85000
      avg_kva == IF avg_watts_30d > 0 THEN 187 * avg_watts_30d ELSE 85000
      base == Max(peak_kva, avg_kva) * (100 + SegMargin(customer.segment))
      kva == CeilTenths(base, up)
  IN  Min(600, Max(10, kva))

\* the samples ai_power_train.main builds: one per customer with telemetry (the
\* target y = target_ideal_kva(c, peak30, avg30) of a sample does not enter the guard)
RECURSIVE PowerSamples(_, _, _)
PowerSamples(tel, cs, i) ==
  IF i > Len(cs) THEN <<>>
  ELSE LET c == cs[i]
           latest == get_latest_ts(tel, c.id)
       IN  IF latest = None THEN PowerSamples(tel, cs, i + 1)
           ELSE LET st == get_stats_30d(tel, c.id, latest[1])
                IN  <<[customer_id |-> c.id, peak30 |-> st.peak, avg30 |-> st.avg]>>
                      \o PowerSamples(tel, cs, i + 1)

\* Outcomes of invert_matrix on the normal equations X'X + l2 I.  With l2 > 0 the
\* matrix is positive definite and every pivot is at least l2.  With l2 = 0 the
\* one-hot and constant columns make X'X rank deficient and rounding decides whether
\* the vanishing pivot falls below 1e-12.
RidgeFitOutcomes(l2) == IF l2 > 0 THEN {"fitted"} ELSE {"fitted", "singular"}

\* ai_train.main: len(x) < 200
NextGuard(n) == n < MIN_TRAIN_SAMPLES

\* the guard of ai_power_train.main rejects exactly ten customers
PowerGuardOffByOne(n) == n <= MIN_POWER_CUSTOMERS
\* ai_power_train.main: len(x) < 10
PowerGuard(n) == n < MIN_POWER_CUSTOMERS

\* a singular matrix leaves an artifact with zero weights behind
OnSingularWriteDefault(old, payload) == Some([payload EXCEPT !.fit = "default"])
\* the ValueError of invert_matrix propagates out of main: no file is opened
OnSingular(old, payload) == old

(***************************************************************************)
(* Feature vectors of the two trainers.  An entry is [of, v]: of names the  *)
(* expression of the source the entry is computed from, v is its value      *)
(* (sines and cosines in per-mille, temperatures in tenths, power in VA).   *)
(***************************************************************************)
\* math.sin(2 * pi * hour / 24) and math.cos(...), hour = ts.hour + ts.minute / 60,
\* per quarter hour
HourSin ==
  <<0, 65, 131, 195, 259, 321, 383, 442, 500, 556, 609, 659, 707, 752, 793,
    831, 866, 897, 924, 947, 966, 981, 991, 998, 1000, 998, 991, 981, 966,
    947, 924, 897, 866, 831, 793, 752, 707, 659, 609, 556, 500, 442, 383,
    321, 259, 195, 131, 65, 0, -65, -131, -195, -259, -321, -383, -442,
    -500, -556, -609, -659, -707, -752, -793, -831, -866, -897, -924, -947,
    -966, -981, -991, -998, -1000, -998, -991, -981, -966, -947, -924,
    -897, -866, -831, -793, -752, -707, -659, -609, -556, -500, -442, -383,
    -321, -259, -195, -131, -65>>
HourCos ==
  <<1000, 998, 991, 981, 966, 947, 924, 897, 866, 831, 793, 752, 707, 659,
    609, 556, 500, 442, 383, 321, 259, 195, 131, 65, 0, -65, -131, -195,
    -259, -321, -383, -442, -500, -556, -609, -659, -707, -752, -793, -831,
    -866, -897, -924, -947, -966, -981, -991, -998, -1000, -998, -991,
    -981, -966, -947, -924, -897, -866, -831, -793, -752, -707, -659, -609,
    -556, -500, -442, -383, -321, -259, -195, -131, -65, 0, 65, 131, 195,
    259, 321, 383, 442, 500, 556, 609, 659, 707, 752, 793, 831, 866, 897,
    924, 947, 966, 981, 991, 998>>
\* math.sin(2 * pi * dow / 7) and math.cos(...), per weekday
DowSin ==
  <<0, 782, 975, 434, -434, -975, -782>>
DowCos ==
  <<1000, 623, -223, -901, -901, -223, 623>>

\* ai_train._seasonal_temp
seasonal_temp(ts, city) ==
  LET base == SeasonalBase[DayOfYear(ts) - 4]
      coast_bias == IF city \in CoastCities THEN -10 ELSE 0
  IN  base + coast_bias

\* ai_train.feature_names with the two tariff names in the other order
feature_names_tariffs_swapped ==
  <<"last_watts", "hour_sin", "hour_cos", "dow_sin", "dow_cos", "is_weekend", "temp_c",
    "contracted_power_kva", "tariff_bihorario", "tariff_simples", "segment_residential",
    "segment_sme", "segment_industrial", "home_area_m2", "household_size", "has_solar",
    "ev_count">>

\* ai_train.feature_names
feature_names ==
  <<"last_watts", "hour_sin", "hour_cos", "dow_sin", "dow_cos", "is_weekend", "temp_c",
    "contracted_power_kva", "tariff_simples", "tariff_bihorario", "segment_residential",
    "segment_sme", "segment_industrial", "home_area_m2", "household_size", "has_solar",
    "ev_count">>

\* ai_train.make_features; temp_c is None or Some(tenths)
make_features(ts, customer, last_watts, temp_c) ==
  LET dow == Weekday(ts)
      is_weekend == IF dow >= 5 THEN 1 ELSE 0
      temp == IF temp_c = None THEN seasonal_temp(ts, customer.city) ELSE temp_c[1]
      t_simple == IF customer.tariff = "Simples" THEN 1 ELSE 0
      t_bi == IF customer.tariff = "Bi-horario" THEN 1 ELSE 0
      s_res == IF customer.segment = "residential" THEN 1 ELSE 0
      s_sme == IF customer.segment = "sme" THEN 1 ELSE 0
      s_ind == IF customer.segment = "industrial" THEN 1 ELSE 0
  IN  <<[of |-> "last_watts", v |-> last_watts],
        [of |-> "hour_sin", v |-> HourSin[QuarterOfDay(ts) + 1]],
        [of |-> "hour_cos", v |-> HourCos[QuarterOfDay(ts) + 1]],
        [of |-> "dow_sin", v |-> DowSin[dow + 1]],
        [of |-> "dow_cos", v |-> DowCos[dow + 1]],
        [of |-> "is_weekend", v |-> is_weekend],
        [of |-> "temp_c", v |-> temp],
        [of |-> "contracted_power_kva", v |-> customer.contracted_power_kva],
        [of |-> "t_simple", v |-> t_simple],
        [of |-> "t_bi", v |-> t_bi],
        [of |-> "s_res", v |-> s_res],
        [of |-> "s_sme", v |-> s_sme],
        [of |-> "s_ind", v |-> s_ind],
        [of |-> "home_area_m2", v |-> customer.home_area_m2],
        [of |-> "household_size", v |-> customer.household_size],
        [of |-> "has_solar", v |-> customer.has_solar],
        [of |-> "ev_count", v |-> customer.ev_count]>>

\* ai_power_train.feature_names
power_feature_names ==
  <<"contracted_power_kva", "peak_watts_30d", "avg_watts_30d", "home_area_m2",
    "household_size", "has_solar", "ev_count", "segment_residential", "segment_sme",
    "segment_industrial">>

\* ai_power_train.main: feats
power_feats(c, peak30, avg30) ==
  LET seg_res == IF c.segment = "residential" THEN 1 ELSE 0
      seg_sme == IF c.segment = "sme" THEN 1 ELSE 0
      seg_ind == IF c.segment = "industrial" THEN 1 ELSE 0
  IN  <<[of |-> "contracted_power_kva", v |-> c.contracted_power_kva],
        [of |-> "peak30", v |-> peak30],
        [of |-> "avg30", v |-> avg30],
        [of |-> "home_area_m2", v |-> c.home_area_m2],
        [of |-> "household_size", v |-> c.household_size],
        [of |-> "has_solar", v |-> c.has_solar],
        [of |-> "ev_count", v |-> c.ev_count],
        [of |-> "seg_res", v |-> seg_res],
        [of |-> "seg_sme", v |-> seg_sme],
        [of |-> "seg_ind", v |-> seg_ind]>>

CustomerById(cs, id) == CHOOSE c \in SeqToSet(cs) : c.id = id

\* ridge_fit: standardize returns one mean and one std per column of x, and
\* invert_matrix of the d x d normal matrix gives one weight per column
ridge_fit_shape(d) == [weights |-> d, mean |-> d, std |-> d]

\* rng.shuffle(idx): for i from the last position down to the second, swap
\* position i with a position drawn in 0..i (positions here are i + 1);
\* ShuffleSteps runs at most k rounds of that loop
RECURSIVE ShuffleSteps(_, _, _, _)
ShuffleSteps(idx, i, r, k) ==
  IF i < 1 \/ k = 0 THEN [idx |-> idx, i |-> i, rng |-> r]
  ELSE LET j == (rng_random(r) * (i + 1)) \div 1000
           swapped == [idx EXCEPT ![i + 1] = idx[j + 1], ![j + 1] = idx[i + 1]]
       IN  ShuffleSteps(swapped, i - 1, rng_next(r), k - 1)

RECURSIVE Shuffle(_, _, _)
Shuffle(idx, i, r) ==
  IF i < 1 THEN idx
  ELSE LET b == ShuffleSteps(idx, i, r, 16)
       IN  Shuffle(b.idx, b.i, b.rng)

Range(n) == [i \in 1..n |-> i - 1]

\* the lengths, in ticks, of the histories the stores hold
HistoryLengths == {0, 2, 3, 19, 21}
LongestHistory == CHOOSE k \in HistoryLengths : \A j \in HistoryLengths : j <= k
\* rng = random.Random(seed); idx = list(range(n)); rng.shuffle(idx), for every
\* n that passes the guard of ai_train.main
Shuffled ==
  [seed \in Seeds |->
     [n \in MIN_TRAIN_SAMPLES..(MaxTrainCustomers * (LongestHistory - 1)) |->
        Shuffle(Range(n), n - 1, Random(seed))]]
shuffled_range(n, seed) == Shuffled[seed][n]

\* ai_train.main, one run; l2 is --lambda in tenths
TrainNext(days, l2, seed) ==
  /\ pc \in {"stopped", "killed", "rolled_back"}
  /\ LET customer_map == load_customers(customers)
         since == isoformat(now - days * DaySeconds)
         x == load_training_pairs(telemetry, customer_map, since)
         idx == shuffled_range(Len(x), seed)
         split == (Len(idx) * 8) \div 10
         tr_idx == SubSeq(idx, 1, split)
         te_idx == SubSeq(idx, split + 1, Len(idx))
         payload == [version |-> 1, trained_at |-> now, interval_minutes |-> INTERVAL_MINUTES,
                     l2 |-> l2, n_train |-> Len(tr_idx), n_test |-> Len(te_idx), fit |-> "ridge",
                     n |-> Len(x), fit_on |-> tr_idx, metrics_on |-> te_idx,
                     feature_names |-> feature_names,
                     shape |-> ridge_fit_shape(Len(make_features(
                                 x[1].ts, CustomerById(customer_map, x[1].customer_id),
                                 x[1].last_watts, Some(x[1].temp_c))))]
     IN  IF Len(customer_map) = 0
           THEN /\ last_exit' = [proc |-> "ai_train", status |-> "SystemExit", msg |-> "Sem clientes"]
                /\ UNCHANGED artifact_next
         ELSE IF NextGuard(Len(x))
           THEN /\ last_exit' = [proc |-> "ai_train", status |-> "SystemExit", msg |-> "Poucos dados"]
                /\ UNCHANGED artifact_next
         ELSE \E outcome \in RidgeFitOutcomes(l2) :
                IF outcome = "singular"
                  THEN /\ last_exit' = [proc |-> "ai_train", status |-> "ValueError", msg |-> "Matriz singular"]
                       /\ artifact_next' = OnSingular(artifact_next, payload)
                  ELSE /\ last_exit' = [proc |-> "ai_train", status |-> "ok", msg |-> "Modelo guardado"]
                       /\ artifact_next' = Some(payload)
  /\ UNCHANGED <<store_vars, now, proc_vars, call, ret, artifact_power>>

\* ai_power_train.main, one run; l2 is KYNEX_POWER_L2 in tenths
TrainPower(l2) ==
  /\ pc \in {"stopped", "killed", "rolled_back"}
  /\ LET cs == load_customers(customers)
         x == PowerSamples(telemetry, cs, 1)
         payload == [version |-> 1, trained_at |-> now, l2 |-> l2, n_train |-> Len(x),
                     n_test |-> Len(x), fit |-> "ridge",
                     n |-> Len(x), fit_on |-> Range(Len(x)), metrics_on |-> Range(Len(x)),
                     feature_names |-> power_feature_names,
                     shape |-> ridge_fit_shape(Len(power_feats(
                                 CustomerById(cs, x[1].customer_id), x[1].peak30, x[1].avg30)))]
     IN  IF PowerGuard(Len(x))
           THEN /\ last_exit' = [proc |-> "ai_power_train", status |-> "SystemExit", msg |-> "Poucos dados"]
                /\ UNCHANGED artifact_power
         ELSE \E outcome \in RidgeFitOutcomes(l2) :
                IF outcome = "singular"
                  THEN /\ last_exit' = [proc |-> "ai_power_train", status |-> "ValueError", msg |-> "Matriz singular"]
                       /\ artifact_power' = OnSingular(artifact_power, payload)
                  ELSE /\ last_exit' = [proc |-> "ai_power_train", status |-> "ok", msg |-> "OK"]
                       /\ artifact_power' = Some(payload)
  /\ UNCHANGED <<store_vars, now, proc_vars, call, ret, artifact_next>>

Next ==
  \/ \E a \in Args : Start(a)
  \/ \E lag \in SleepLags : RtWait(lag)
  \/ Build
  \/ InsertRow
  \/ \E e \in ComputeTimes : Commit(e)
  \/ \E lag \in SleepLags : RtSleep(lag)
  \/ Kill
  \/ \E dt \in IdleTimes : Idle(dt)
  \/ \E days \in TrainDays, l2 \in TrainL2, seed \in Seeds : TrainNext(days, l2, seed)
  \/ \E l2 \in TrainL2 : TrainPower(l2)

Spec == Init /\ [][Next]_vars

(***************************************************************************)
(* Specification of the trainers over stores a batch run of the generator  *)
(* leaves behind                                                           *)
(***************************************************************************)
\* the clock when the trainers run: three days after the first reading
TrainClock == 3 * DaySeconds + 2 * 3600

\* generate_steps whose loop never advances ts
RECURSIVE HistoryClockStuck(_, _, _, _, _, _)
HistoryClockStuck(cs, t, steps, last, r, acc) ==
  IF steps = 0 THEN acc
  ELSE LET b == BuildRows(cs, 1, t, last, r, <<>>)
       IN  HistoryClockStuck(cs, t, steps - 1, b.last, b.rng, acc \o b.rows)

\* generate_steps from start_ts on, run to its end: the rows it commits
RECURSIVE History(_, _, _, _, _, _)
History(cs, t, steps, last, r, acc) ==
  IF steps = 0 THEN acc
  ELSE LET b == BuildRows(cs, 1, t, last, r, <<>>)
       IN  History(cs, t + IntervalSeconds, steps - 1, b.last, b.rng, acc \o b.rows)

\* the rows of a store whose later readings were inserted first (a batch run
\* into the future followed by runs that fill the earlier slots)
Reverse(s) == [i \in 1..Len(s) |-> s[Len(s) + 1 - i]]

InitTrain ==
  /\ \E n \in 0..MaxTrainCustomers, extra \in 0..1, k \in HistoryLengths, seed \in Seeds,
        late_first \in BOOLEAN :
       LET cs == create_customers(n + extra, seed)
       IN  /\ n + extra <= MaxTrainCustomers
           /\ late_first => (k \in {2, 3} /\ n >= 1)
           /\ customers = SeqToSet(cs)
           /\ \E h \in {History(SubSeq(cs, 1, n), 2 * DaySeconds, k, <<>>, Random(seed), <<>>)} :
                telemetry = IF late_first THEN Reverse(h) ELSE h
  /\ txn = <<>>
  /\ now = TrainClock
  /\ pc = "stopped"
  /\ args = NoArgs
  /\ loaded = <<>>
  /\ cur_ts = 0
  /\ steps_left = 0
  /\ rng = 0
  /\ last_by_customer = <<>>
  /\ rows = <<>>
  /\ emitted = <<>>
  /\ artifact_next = None
  /\ artifact_power = None
  /\ last_exit = NoExit
  /\ call = NoCall
  /\ ret = None

NextTrain ==
  \/ \E days \in TrainDays, l2 \in TrainL2, seed \in Seeds : TrainNext(days, l2, seed)
  \/ \E l2 \in TrainL2 : TrainPower(l2)

SpecTrain == InitTrain /\ [][NextTrain]_vars


(***************************************************************************)
(* Inputs of the pure-function specification of simulate_watts             *)
(***************************************************************************)
Profile(id, segment, kva, price, variant) ==
  [id |-> id, segment |-> segment,
   city |-> IF variant = 1 THEN "Porto" ELSE "Braga",
   contracted_power_kva |-> kva,
   tariff |-> IF variant = 1 THEN "Simples" ELSE "Bi-horario",
   price_eur_per_kwh |-> price,
   home_area_m2 |-> IF segment = "residential" THEN (IF variant = 1 THEN 45 ELSE 180)
                    ELSE IF segment = "sme" THEN (IF variant = 1 THEN 120 ELSE 420)
                    ELSE (IF variant = 1 THEN 800 ELSE 2600),
   household_size |-> IF segment = "residential" THEN (IF variant = 1 THEN 1 ELSE 5)
                      ELSE IF segment = "sme" THEN (IF variant = 1 THEN 3 ELSE 12)
                      ELSE (IF variant = 1 THEN 20 ELSE 60),
   has_solar |-> IF segment = "residential" /\ variant = 2 THEN 1 ELSE 0,
   ev_count |-> IF segment = "residential" /\ variant = 2 THEN 2 ELSE 0]

SimPrices == {150, 250}
SimTimes == {3 * 3600, 7 * 3600 + 1800, DaySeconds + 13 * 3600,
             5 * DaySeconds + 13 * 3600, 5 * DaySeconds + 20 * 3600 + 1800}
SimLastWatts == {None, Some(40), Some(25392)}
SimDraws ==
  [g_temp : {-30, 30}, u_ev : {50, 500}, g_noise : {-1000, -10, 10, 1000},
   u_spike : {0, 3, 500}, u_amt : {0, 999}]

\* the store is empty and no generator runs
IdleStoreAndProcess ==
  /\ customers = {}
  /\ telemetry = <<>>
  /\ txn = <<>>
  /\ now = DaySeconds
  /\ pc = "stopped"
  /\ args = NoArgs
  /\ loaded = <<>>
  /\ cur_ts = 0
  /\ steps_left = 0
  /\ rng = 0
  /\ last_by_customer = <<>>
  /\ rows = <<>>
  /\ emitted = <<>>
  /\ artifact_next = None
  /\ artifact_power = None
  /\ last_exit = NoExit

InitSim ==
  /\ \E ts \in SimTimes, s \in 1..3, price \in SimPrices, variant \in 1..2,
        last_watts \in SimLastWatts, d \in SimDraws :
       \E kva \in ContractedTiers(SEGMENTS[s]) :
         call = [fn |-> "simulate_watts", ts |-> ts,
                 customer |-> Profile(0, SEGMENTS[s], kva, price, variant),
                 last_watts |-> last_watts, d |-> d]
  /\ ret = None
  /\ IdleStoreAndProcess

CallSimulateWatts ==
  /\ call.fn = "simulate_watts"
  /\ ret = None
  /\ ret' = Some(simulate_watts(call.ts, call.customer, call.last_watts, call.d))
  /\ UNCHANGED <<call, store_vars, now, proc_vars, train_vars>>

NextSim == CallSimulateWatts

SpecSim == InitSim /\ [][NextSim]_vars

Cap(customer) == (customer.contracted_power_kva * 92) \div 100

\* C1: every reading simulate_watts returns for a profile on an allowed tier
\* satisfies 40 <= watts <= 0.92 x contracted power, whatever the timestamp, the
\* previous watts and the random draws, the spike after the clamp included.
WattsWithinBounds ==
  (call.fn = "simulate_watts" /\ ret # None) =>
    /\ 40 <= ret[1].watts
    /\ ret[1].watts * 100 <= 92 * call.customer.contracted_power_kva

\* a spike was drawn on a reading the first clamp had already put at the cap
WattsWithinBoundsWitness ==
  /\ call.fn = "simulate_watts" /\ ret # None
  /\ call.d.u_spike < 2 /\ call.d.g_noise = 1000
  /\ ret[1].watts = Cap(call.customer)

\* C10: the cost of a reading is (watts / 1000) x unit price of its profile x 0.25
CostUsesProfileUnitPrice ==
  (call.fn = "simulate_watts" /\ ret # None) =>
    ret[1].euros = (ret[1].watts * call.customer.price_eur_per_kwh * INTERVAL_MINUTES) \div 60

(***************************************************************************)
(* metrics of the two trainers.  Means and ratios are kept as fractions    *)
(* <<numerator, denominator>>; rmse is returned as its square, mse.  With  *)
(* S the sum of y_true, ss_tot is tot / n^2 where tot is the sum of        *)
(* (n y - S)^2, so on integer targets ss_tot > 1e-12 exactly when tot > 0. *)
(***************************************************************************)
RECURSIVE SumSeq(_)
SumSeq(q) == IF Len(q) = 0 THEN 0 ELSE q[1] + SumSeq(Tail(q))

SsTot(y_true) ==
  LET n == Len(y_true)
      s == SumSeq(y_true)
  IN  SumSeq([i \in 1..n |-> (n * y_true[i] - s) * (n * y_true[i] - s)])

SsRes(y_true, y_pred) ==
  SumSeq([i \in 1..Len(y_true) |-> (y_true[i] - y_pred[i]) * (y_true[i] - y_pred[i])])

AbsErr(y_true, y_pred) ==
  SumSeq([i \in 1..Len(y_true) |-> Abs(y_pred[i] - y_true[i])])

\* ai_train.metrics: r2 = 1.0 - (ss_res / ss_tot if ss_tot > 1e-12 else 0.0)
metrics_train(y_true, y_pred) ==
  LET n == Len(y_true)
      tot == SsTot(y_true)
      res == SsRes(y_true, y_pred)
  IN  [mae |-> <<AbsErr(y_true, y_pred), n>>, mse |-> <<res, n>>,
       r2 |-> IF tot > 0 THEN <<tot - n * n * res, tot>> ELSE <<1, 1>>]

\* ai_power_train.metrics: r2 = 1.0 - (ss_res / ss_tot) if ss_tot > 1e-12 else 0.0
metrics_power(y_true, y_pred) ==
  LET n == Len(y_true)
      tot == SsTot(y_true)
      res == SsRes(y_true, y_pred)
  IN  [mae |-> <<AbsErr(y_true, y_pred), n>>, mse |-> <<res, n>>,
       r2 |-> IF tot > 0 THEN <<tot - n * n * res, tot>> ELSE <<0, 1>>]

MaxSamples == 3
MaxY == 2

InitMetrics ==
  /\ \E n \in 1..MaxSamples, pipeline \in {"ai_train", "ai_power_train"} :
       \E y_true \in [1..n -> 0..MaxY], y_pred \in [1..n -> 0..MaxY] :
         call = [fn |-> "metrics", pipeline |-> pipeline, y_true |-> y_true, y_pred |-> y_pred]
  /\ ret = None
  /\ IdleStoreAndProcess

CallMetrics ==
  /\ call.fn = "metrics"
  /\ ret = None
  /\ ret' = Some(IF call.pipeline = "ai_train"
                   THEN metrics_train(call.y_true, call.y_pred)
                   ELSE metrics_power(call.y_true, call.y_pred))
  /\ UNCHANGED <<call, store_vars, now, proc_vars, train_vars>>

NextMetrics == CallMetrics

SpecMetrics == InitMetrics /\ [][NextMetrics]_vars

(***************************************************************************)
(* Inputs of the pure-function specification of target_ideal_kva           *)
(***************************************************************************)
\* tenths of a kVA the unclamped result is searched in
MaxKvaTenths == 2000
KvaPeaks == {0, 1, 500, 850, 1700, 5000, 9522, 47000, 60000}
KvaAvgs == {0, 1, 400, 1200, 5000, 30000}

InitKva ==
  /\ \E s \in 1..3, peak \in KvaPeaks, avg \in KvaAvgs :
       call = [fn |-> "target_ideal_kva",
               customer |-> Profile(0, SEGMENTS[s], TierSeq(SEGMENTS[s])[1], 200, 1),
               peak_watts_30d |-> peak, avg_watts_30d |-> avg]
  /\ ret = None
  /\ IdleStoreAndProcess

CallTargetIdealKva ==
  /\ call.fn = "target_ideal_kva"
  /\ ret = None
  /\ \E up \in BOOLEAN :
       ret' = Some(target_ideal_kva(call.customer, call.peak_watts_30d, call.avg_watts_30d, up))
  /\ UNCHANGED <<call, store_vars, now, proc_vars, train_vars>>

NextKva == CallTargetIdealKva

SpecKva == InitKva /\ [][NextKva]_vars

(***************************************************************************)
(* target_ideal_kva called on two pairs of statistics of one profile, the   *)
(* second pair at least the first in both statistics                       *)
(***************************************************************************)
\* the exact value of base * 10 * 85000 that math.ceil is applied to
IdealBase(customer, peak_watts_30d, avg_watts_30d) ==
  Max(IF peak_watts_30d > 0 THEN 100 * peak_watts_30d ELSE 85000,
      IF avg_watts_30d > 0 THEN 187 * avg_watts_30d ELSE 85000)
    * (100 + SegMargin(customer.segment))

InitKvaPair ==
  /\ \E s \in 1..3, peak1, peak2 \in KvaPeaks, avg1, avg2 \in KvaAvgs :
       /\ peak1 <= peak2 /\ avg1 <= avg2
       /\ call = [fn |-> "target_ideal_kva",
                  customer |-> Profile(0, SEGMENTS[s], TierSeq(SEGMENTS[s])[1], 200, 1),
                  first |-> [peak_watts_30d |-> peak1, avg_watts_30d |-> avg1],
                  second |-> [peak_watts_30d |-> peak2, avg_watts_30d |-> avg2]]
  /\ ret = None
  /\ IdleStoreAndProcess

\* Two calls.  Division, multiplication by a positive constant and max are
\* non-decreasing on doubles, so where the exact products of the two calls are
\* equal the double of the first call is not above the double of the second: the
\* first does not round up when the second does not.
CallTargetIdealKvaPair ==
  /\ call.fn = "target_ideal_kva"
  /\ ret = None
  /\ \E up1, up2 \in BOOLEAN :
       /\ IdealBase(call.customer, call.first.peak_watts_30d, call.first.avg_watts_30d)
            = IdealBase(call.customer, call.second.peak_watts_30d, call.second.avg_watts_30d)
          => (up1 => up2)
       /\ ret' = Some([first |-> target_ideal_kva(call.customer, call.first.peak_watts_30d,
                                                  call.first.avg_watts_30d, up1),
                       second |-> target_ideal_kva(call.customer, call.second.peak_watts_30d,
                                                   call.second.avg_watts_30d, up2)])
  /\ UNCHANGED <<call, store_vars, now, proc_vars, train_vars>>

SpecKvaPair == InitKvaPair /\ [][CallTargetIdealKvaPair]_vars

(***************************************************************************)
(* generate_steps called as a whole, twice at most, on one store           *)
(***************************************************************************)
\* the store after generate_steps(conn, customers, start_ts, steps, seed),
\* last being the dict latest_watts_by_customer returned at entry
generate_steps(tel, cs, start_ts, steps, seed, last) ==
  tel \o History(cs, start_ts, steps, last, Random(seed), <<>>)

InitSteps ==
  /\ \E n \in 1..MaxCustomers, steps \in 0..MaxSteps,
        start_ts \in {2 * DaySeconds, 2 * DaySeconds + IntervalSeconds},
        seed \in Seeds, prior \in {0, 1} :
       LET cs == create_customers(n, seed)
       IN  /\ customers = SeqToSet(cs)
           /\ telemetry = History(cs, start_ts - prior * IntervalSeconds, prior, <<>>,
                                  Random(seed), <<>>)
           /\ call = [fn |-> "generate_steps", customers |-> load_customers(SeqToSet(cs)),
                      start_ts |-> start_ts, steps |-> steps, seed |-> seed]
  /\ txn = <<>>
  /\ now = 2 * DaySeconds + 1800
  /\ pc = "stopped"
  /\ args = NoArgs
  /\ loaded = <<>>
  /\ cur_ts = 0
  /\ steps_left = 0
  /\ rng = 0
  /\ last_by_customer = <<>>
  /\ rows = <<>>
  /\ emitted = <<>>
  /\ artifact_next = None
  /\ artifact_power = None
  /\ last_exit = NoExit
  /\ ret = <<>>

\* one whole call; ret records the store before and after it
CallGenerateSteps(e) ==
  /\ call.fn = "generate_steps"
  /\ Len(ret) < 2
  /\ \E last \in latest_watts_by_customer(telemetry) :
       /\ telemetry' = generate_steps(telemetry, call.customers, call.start_ts,
                                      call.steps, call.seed, last)
       /\ ret' = Append(ret, [before |-> telemetry, after |-> telemetry', last |-> last])
  /\ now' = now + e
  /\ UNCHANGED <<call, customers, txn, proc_vars, train_vars>>

\* main --reset-customers between two calls: DELETE FROM customer_telemetry_15m
\* and the same profiles created again from the same seed
ResetStore ==
  /\ call.fn = "generate_steps"
  /\ Len(ret) = 1
  /\ telemetry # <<>>
  /\ telemetry' = DeleteTelemetry(telemetry, TRUE)
  /\ customers' = SeqToSet(create_customers(Cardinality(customers), call.seed))
  /\ UNCHANGED <<call, ret, txn, now, proc_vars, train_vars>>

NextSteps ==
  \/ \E e \in {1, 60} : CallGenerateSteps(e)
  \/ ResetStore

SpecSteps == InitSteps /\ [][NextSteps]_vars

(***************************************************************************)
(* invert_matrix (the same code in ai_train and ai_power_train).  Matrix    *)
(* entries are exact rationals <<numerator, denominator>> counted in units *)
(* of 1e-13, so that the threshold 1e-12 of the code is 10 units.  A row    *)
(* that was divided by its pivot holds ratios of entries, plain numbers:    *)
(* with numerators and denominators below 2^31 such a ratio is below 1e-12  *)
(* exactly when it is zero.                                                 *)
(***************************************************************************)
RECURSIVE Gcd(_, _)
Gcd(a, b) == IF b = 0 THEN a ELSE Gcd(b, a % b)

Q(num, den) ==
  LET g == Gcd(Abs(num), Abs(den))
      s == IF den < 0 THEN -1 ELSE 1
  IN  <<(s * num) \div g, (s * den) \div g>>

QMul(x, y) == Q(x[1] * y[1], x[2] * y[2])
QSub(x, y) == Q(x[1] * y[2] - y[1] * x[2], x[2] * y[2])
QAdd(x, y) == Q(x[1] * y[2] + y[1] * x[2], x[2] * y[2])
QInv(x) == Q(x[2], x[1])
\* abs(x) > abs(y)
QAbsGreater(x, y) == Abs(x[1]) * y[2] > Abs(y[1]) * x[2]

\* 1e-12 in units of 1e-13
PivotThreshold == 10
\* abs(x) < 1e-12, x an entry in units of 1e-13
BelowThreshold(x) == Abs(x[1]) < PivotThreshold * x[2]
\* abs(x) < 1e-12, x a ratio of entries
RatioBelowThreshold(x) == x[1] = 0

identity(n) == [i \in 1..n |-> [j \in 1..n |-> IF i = j THEN Q(1, 1) ELSE Q(0, 1)]]

\* the row operations of one column: pivot search, swap, normalisation, elimination
RECURSIVE GaussJordan(_, _, _)
GaussJordan(aug, col, n) ==
  IF col > n THEN [raised |-> FALSE, inv |-> [i \in 1..n |-> SubSeq(aug[i], n + 1, 2 * n)]]
  ELSE LET pivot == CHOOSE p \in col..n :
                      /\ \A r \in col..n : ~QAbsGreater(aug[r][col], aug[p][col])
                      /\ \A r \in col..(p - 1) : QAbsGreater(aug[p][col], aug[r][col])
       IN  IF BelowThreshold(aug[pivot][col])
             THEN [raised |-> TRUE, inv |-> <<>>]
           ELSE LET swapped == [aug EXCEPT ![col] = aug[pivot], ![pivot] = aug[col]]
                    inv_pv == QInv(swapped[col][col])
                    prow == [j \in 1..(2 * n) |-> QMul(swapped[col][j], inv_pv)]
                    reduced ==
                      [r \in 1..n |->
                         IF r = col THEN prow
                         ELSE LET factor == swapped[r][col]
                                  skip == IF r < col THEN RatioBelowThreshold(factor)
                                          ELSE BelowThreshold(factor)
                              IN  IF skip THEN swapped[r]
                                  ELSE [j \in 1..(2 * n) |->
                                          QSub(swapped[r][j], QMul(factor, prow[j]))]]
                IN  GaussJordan(reduced, col + 1, n)

invert_matrix(a) ==
  LET n == Len(a)
      aug == [i \in 1..n |-> a[i] \o identity(n)[i]]
  IN  GaussJordan(aug, 1, n)

\* entries tried, in units of 1e-13: zero, below the threshold, above it
Matrices ==
  {[i \in 1..2 |-> [j \in 1..2 |-> Q(f[i][j], 1)]] :
     f \in [1..2 -> [1..2 -> {0, 5, 20, -20}]]}
  \cup {[i \in 1..3 |-> [j \in 1..3 |-> Q(f[i][j], 1)]] : f \in [1..3 -> [1..3 -> {0, 20}]]}

InitInvert ==
  /\ \E a \in Matrices : call = [fn |-> "invert_matrix", a |-> a]
  /\ ret = None
  /\ IdleStoreAndProcess

CallInvertMatrix ==
  /\ call.fn = "invert_matrix"
  /\ ret = None
  /\ ret' = Some(invert_matrix(call.a))
  /\ UNCHANGED <<call, store_vars, now, proc_vars, train_vars>>

SpecInvert == InitInvert /\ [][CallInvertMatrix]_vars

(***************************************************************************)
(* standardize (the same code in ai_train and ai_power_train), in exact     *)
(* arithmetic.  Means are rationals; a standard deviation math.sqrt(v) is   *)
(* kept as its radicand v, and a z-score (x - mean) / math.sqrt(v) as the   *)
(* pair of its numerator and that radicand.  With numerators and            *)
(* denominators below 2^31, math.sqrt(v) > 1e-9 exactly when v > 0.         *)
(***************************************************************************)
RECURSIVE QSumOf(_)
QSumOf(xs) == IF Len(xs) = 0 THEN Q(0, 1) ELSE QAdd(xs[1], QSumOf(Tail(xs)))

Column(x, j) == [i \in 1..Len(x) |-> x[i][j]]

\* s > 1e-9 for s = math.sqrt(v)
AboveStdFloor(v) == v[1] > 0

\* standardize keeping a standard deviation of zero
standardize_no_floor(x) ==
  LET n == Len(x)
      d == Len(x[1])
      means == [j \in 1..d |-> QMul(QSumOf(Column(x, j)), Q(1, n))]
      stds == [j \in 1..d |->
                 QMul(QSumOf([i \in 1..n |->
                                QMul(QSub(x[i][j], means[j]), QSub(x[i][j], means[j]))]),
                      Q(1, Max(1, n - 1)))]
  IN  [xz |-> [i \in 1..n |-> [j \in 1..d |->
                 [num |-> QSub(x[i][j], means[j]), rad |-> stds[j]]]],
       means |-> means, stds |-> stds]

standardize(x) ==
  LET n == Len(x)
      d == Len(x[1])
      means == [j \in 1..d |-> QMul(QSumOf(Column(x, j)), Q(1, n))]
      sq == [j \in 1..d |->
               QMul(QSumOf([i \in 1..n |->
                              QMul(QSub(x[i][j], means[j]), QSub(x[i][j], means[j]))]),
                    Q(1, Max(1, n - 1)))]
      stds == [j \in 1..d |-> IF AboveStdFloor(sq[j]) THEN sq[j] ELSE Q(1, 1)]
  IN  [xz |-> [i \in 1..n |-> [j \in 1..d |->
                 [num |-> QSub(x[i][j], means[j]), rad |-> stds[j]]]],
       means |-> means, stds |-> stds]

\* inputs of one, two and three rows, two columns
StdInputs ==
  UNION {{[i \in 1..n |-> [j \in 1..2 |-> Q(f[i][j], 1)]] :
            f \in [1..n -> [1..2 -> {0, 1, 3}]]} : n \in {1, 2, 3}}

InitStandardize ==
  /\ \E x \in StdInputs : call = [fn |-> "standardize", x |-> x]
  /\ ret = None
  /\ IdleStoreAndProcess

CallStandardize ==
  /\ call.fn = "standardize"
  /\ ret = None
  /\ ret' = Some(standardize(call.x))
  /\ UNCHANGED <<call, store_vars, now, proc_vars, train_vars>>

SpecStandardize == InitStandardize /\ [][CallStandardize]_vars

(***************************************************************************)
(* load_customers over customers tables that other writers of the store    *)
(* may have filled: the schema constrains no column to a domain            *)
(***************************************************************************)
StoredRows ==
  {Profile(id, segment, kva, price, 1) :
     id \in {1, 2}, segment \in {"residential", "sme", "farm"}, kva \in {3450, 4000},
     price \in {200, 900}}
\* one or two rows, of different ids (id is the primary key)
StoredTables ==
  {{a} : a \in StoredRows} \cup {{a, b} : a \in {r \in StoredRows : r.id = 1},
                                           b \in {r \in StoredRows : r.id = 2}}

\* Customer(...): the constructor the dataclass generates stores its arguments
CustomerInit(fields) == [raised |-> FALSE, value |-> fields]

InitLoad ==
  /\ \E table \in StoredTables :
       /\ customers = table
       /\ call = [fn |-> "load_customers"]
  /\ telemetry = <<>>
  /\ txn = <<>>
  /\ now = DaySeconds
  /\ pc = "stopped"
  /\ args = NoArgs
  /\ loaded = <<>>
  /\ cur_ts = 0
  /\ steps_left = 0
  /\ rng = 0
  /\ last_by_customer = <<>>
  /\ rows = <<>>
  /\ emitted = <<>>
  /\ artifact_next = None
  /\ artifact_power = None
  /\ last_exit = NoExit
  /\ ret = None

CallLoadCustomers ==
  /\ call.fn = "load_customers"
  /\ ret = None
  /\ LET cs == load_customers(customers)
         built == [i \in 1..Len(cs) |-> CustomerInit(cs[i])]
     IN  ret' = Some([raised |-> \E i \in 1..Len(cs) : built[i].raised,
                      customers |-> [i \in 1..Len(cs) |-> built[i].value]])
  /\ UNCHANGED <<call, store_vars, now, proc_vars, train_vars>>

SpecLoad == InitLoad /\ [][CallLoadCustomers]_vars

(***************************************************************************)
(* _next_15m_boundary on every second of two intervals                     *)
(***************************************************************************)
BoundaryTimes == {RunStart + s : s \in 0..(2 * IntervalSeconds - 1)}

InitBoundary ==
  /\ \E ts \in BoundaryTimes : call = [fn |-> "_next_15m_boundary", ts |-> ts]
  /\ ret = None
  /\ IdleStoreAndProcess

CallNextBoundary ==
  /\ call.fn = "_next_15m_boundary"
  /\ ret = None
  /\ ret' = Some(next_15m_boundary(call.ts))
  /\ UNCHANGED <<call, store_vars, now, proc_vars, train_vars>>

SpecBoundary == InitBoundary /\ [][CallNextBoundary]_vars

(***************************************************************************)
(* Continuous mode, one iteration of its loop per step: sleep to the        *)
(* boundary, generate_steps(conn, customers, target, steps=1, seed), sleep  *)
(* 15 minutes.  ret holds, per tick, the generator state generate_steps     *)
(* started from and the state its draws left                               *)
(***************************************************************************)
MaxTicks == 3

\* a generator kept from one call of generate_steps to the next
generate_steps_rng_carried(seed, carried) ==
  IF carried = None THEN Random(seed) ELSE carried[1]

\* rng = random.Random(seed): the generator one call of generate_steps draws
\* from, whatever state the generator of an earlier call (carried) was left in
generate_steps_rng(seed, carried) == Random(seed)

\* the generator states drawn from r up to the state end
RECURSIVE DrawnStates(_, _)
DrawnStates(r, end) ==
  IF r = end THEN <<>> ELSE <<rng_next(r)>> \o DrawnStates(rng_next(r), end)

InitTicks ==
  /\ \E n \in 1..MaxCustomers, seed \in Seeds :
       LET cs == create_customers(n, seed)
       IN  /\ customers = SeqToSet(cs)
           /\ call = [fn |-> "realtime", customers |-> load_customers(SeqToSet(cs)),
                      seed |-> seed]
  /\ now \in {RunStart + 30, RunStart + 6 * 3600 + 30}
  /\ telemetry = <<>>
  /\ txn = <<>>
  /\ pc = "stopped"
  /\ args = NoArgs
  /\ loaded = <<>>
  /\ cur_ts = 0
  /\ steps_left = 0
  /\ rng = 0
  /\ last_by_customer = <<>>
  /\ rows = <<>>
  /\ emitted = <<>>
  /\ artifact_next = None
  /\ artifact_power = None
  /\ last_exit = NoExit
  /\ ret = <<>>

\* one iteration of `while True` in main; e is the time the tick takes, lag the
\* time the closing sleep returns late
RealtimeTick(e, lag) ==
  /\ call.fn = "realtime"
  /\ Len(ret) < MaxTicks
  /\ LET target == next_15m_boundary(now)
         sleep_s == target - now
         woke == IF sleep_s > 0 THEN now + sleep_s ELSE now
         carried == IF ret = <<>> THEN None ELSE Some(ret[Len(ret)].rng_end)
         r == generate_steps_rng(call.seed, carried)
     IN  \E last \in latest_watts_by_customer(telemetry) :
           LET b == BuildRows(call.customers, 1, target, last, r, <<>>)
           IN  /\ telemetry' = telemetry \o b.rows
               /\ ret' = Append(ret, [ts |-> target, rng_start |-> r, rng_end |-> b.rng,
                                      drawn |-> DrawnStates(r, b.rng)])
               /\ now' = woke + e + INTERVAL_MINUTES * 60 + lag
  /\ UNCHANGED <<customers, txn, call, proc_vars, train_vars>>

NextTicks == \E e \in ComputeTimes, lag \in SleepLags : RealtimeTick(e, lag)

SpecTicks == InitTicks /\ [][NextTicks]_vars

(***************************************************************************)
(* ensure_schema of the generator and of the next-step trainer, applied to  *)
(* one database file in any order.  A database is its tables (ordered       *)
(* columns and rows) and its indexes; ret holds the database, call the      *)
(* processes that have applied their ensure_schema so far                   *)
(***************************************************************************)
\* a column as PRAGMA table_info reports it: name, type, notnull, dflt_value
Col(name, type, notnull, dflt) == [name |-> name, type |-> type, notnull |-> notnull, dflt |-> dflt]

\* the value an existing row gets for an added column: the DEFAULT literal under
\* the affinity of the column, NULL (None) when the definition has no DEFAULT
DefaultValue(col) ==
  IF col.dflt = None THEN None ELSE Some([storage |-> col.type, literal |-> col.dflt[1]])

BaseColumns ==
  <<Col("id", "TEXT", FALSE, None), Col("name", "TEXT", TRUE, None),
    Col("segment", "TEXT", TRUE, None), Col("city", "TEXT", TRUE, None),
    Col("contracted_power_kva", "REAL", TRUE, None), Col("tariff", "TEXT", TRUE, None),
    Col("utility", "TEXT", TRUE, None)>>
CreatedAt == Col("created_at", "TEXT", TRUE, None)

\* the ensure_column calls of ai_generate.ensure_schema, in order
GenerateCompatColumns ==
  <<Col("price_eur_per_kwh", "REAL", TRUE, Some("0.2")),
    Col("fixed_daily_fee_eur", "REAL", TRUE, Some("0")),
    Col("has_smart_meter", "INTEGER", TRUE, Some("1")),
    Col("home_area_m2", "REAL", TRUE, Some("80")),
    Col("household_size", "INTEGER", TRUE, Some("2")),
    Col("locality_type", "TEXT", TRUE, Some("'Urbana'")),
    Col("dwelling_type", "TEXT", TRUE, Some("'Apartamento'")),
    Col("build_year_band", "TEXT", TRUE, Some("'2000-2014'")),
    Col("heating_sources", "TEXT", TRUE, Some("''")),
    Col("has_solar", "INTEGER", TRUE, Some("0")),
    Col("ev_count", "INTEGER", TRUE, Some("0")),
    Col("alert_sensitivity", "TEXT", TRUE, Some("'Media'")),   \* 'Média' in the source
    Col("main_appliances", "TEXT", TRUE, Some("''"))>>

\* the ensure_column calls of ai_train.ensure_schema, in order
TrainCompatColumns ==
  <<Col("home_area_m2", "REAL", TRUE, Some("80")),
    Col("household_size", "INTEGER", TRUE, Some("2")),
    Col("has_solar", "INTEGER", TRUE, Some("0")),
    Col("ev_count", "INTEGER", TRUE, Some("0"))>>

TelemetryColumns ==
  <<Col("id", "INTEGER", FALSE, None), Col("customer_id", "TEXT", TRUE, None),
    Col("ts", "TEXT", TRUE, None), Col("watts", "REAL", TRUE, None),
    Col("euros", "REAL", TRUE, None), Col("temp_c", "REAL", FALSE, None),
    Col("is_estimated", "INTEGER", TRUE, Some("0"))>>

TelemetryIndex ==
  [name |-> "idx_customer_telemetry_15m_customer_ts", table |-> "customer_telemetry_15m",
   columns |-> <<"customer_id", "ts">>]

\* CREATE TABLE IF NOT EXISTS: an existing table of that name is left as it is
create_table_if_not_exists(db, table, columns) ==
  IF table \in DOMAIN db.tables
    THEN db
    ELSE [db EXCEPT !.tables = (table :> [columns |-> columns, rows |-> <<>>]) @@ @]

\* ALTER TABLE ADD COLUMN as it would act without a DEFAULT: rows get NULL
alter_table_add_column_null(db, table, col) ==
  [db EXCEPT !.tables[table] =
     [columns |-> Append(@.columns, col),
      rows |-> [i \in 1..Len(@.rows) |-> (col.name :> None) @@ @.rows[i]]]]

\* ALTER TABLE ADD COLUMN: the column goes last, every row gets its default
alter_table_add_column(db, table, col) ==
  [db EXCEPT !.tables[table] =
     [columns |-> Append(@.columns, col),
      rows |-> [i \in 1..Len(@.rows) |-> (col.name :> DefaultValue(col)) @@ @.rows[i]]]]

\* ensure_column: PRAGMA table_info, compare the names, add when none matches
ensure_column(db, table, col) ==
  LET info == db.tables[table].columns
      exists == \E i \in 1..Len(info) : info[i].name = col.name
  IN  IF ~exists THEN alter_table_add_column(db, table, col) ELSE db

RECURSIVE EnsureColumns(_, _, _)
EnsureColumns(db, table, cols) ==
  IF cols = <<>> THEN db
  ELSE EnsureColumns(ensure_column(db, table, Head(cols)), table, Tail(cols))

\* CREATE INDEX IF NOT EXISTS: an existing index of that name is left as it is
create_index_if_not_exists(db, index) ==
  IF \E ix \in db.indexes : ix.name = index.name
    THEN db
    ELSE [db EXCEPT !.indexes = @ \cup {index}]

\* ai_generate.ensure_schema; every statement is data definition, which sqlite3
\* runs outside a transaction, so the final commit has nothing to add
generate_ensure_schema(db) ==
  LET a == create_table_if_not_exists(db, "customers",
             BaseColumns \o GenerateCompatColumns \o <<CreatedAt>>)
      b == EnsureColumns(a, "customers", GenerateCompatColumns)
      c == create_table_if_not_exists(b, "customer_telemetry_15m", TelemetryColumns)
  IN  create_index_if_not_exists(c, TelemetryIndex)

\* ai_train.ensure_schema
train_ensure_schema(db) ==
  LET a == create_table_if_not_exists(db, "customers", BaseColumns \o <<CreatedAt>>)
      b == EnsureColumns(a, "customers", TrainCompatColumns)
      c == create_table_if_not_exists(b, "customer_telemetry_15m", TelemetryColumns)
  IN  create_index_if_not_exists(c, TelemetryIndex)

\* a row of a table: one value per column, values named by what wrote them
StoredRow(columns, tag) ==
  [n \in {columns[i].name : i \in 1..Len(columns)} |-> Some([storage |-> "stored", literal |-> tag])]

\* database files the two programs may be pointed at: a new file, or one whose
\* customers table predates some of the compat columns (home_area_m2 possibly
\* under an older definition), with or without a telemetry table and its index
LegacyDatabases ==
  {[tables |-> <<>>, indexes |-> {}]} \cup
  {LET columns == BaseColumns \o <<CreatedAt>>
                    \o (IF price THEN <<GenerateCompatColumns[1]>> ELSE <<>>)
                    \o (IF area = "none" THEN <<>>
                        ELSE IF area = "older" THEN <<Col("home_area_m2", "INTEGER", FALSE, None)>>
                        ELSE <<TrainCompatColumns[1]>>)
                    \o (IF solar THEN <<TrainCompatColumns[3]>> ELSE <<>>)
       cust == "customers" :> [columns |-> columns,
                               rows |-> [i \in 1..nrows |-> StoredRow(columns, "customer")]]
       tel == "customer_telemetry_15m" :>
                [columns |-> TelemetryColumns,
                 rows |-> [i \in 1..nrows |-> StoredRow(TelemetryColumns, "reading")]]
   IN  [tables |-> IF telem = "none" THEN cust ELSE cust @@ tel,
        indexes |-> IF telem = "indexed" THEN {TelemetryIndex} ELSE {}] :
   price \in BOOLEAN, area \in {"none", "older", "current"}, solar \in BOOLEAN,
   nrows \in 0..1, telem \in {"none", "plain", "indexed"}}

MaxApplications == 3

InitSchema ==
  /\ \E db \in LegacyDatabases : ret = db
  /\ call = [fn |-> "ensure_schema", applied |-> <<>>]
  /\ IdleStoreAndProcess

\* ai_generate.main up to ensure_schema(conn)
GenerateEnsureSchema ==
  /\ call.fn = "ensure_schema"
  /\ Len(call.applied) < MaxApplications
  /\ ret' = generate_ensure_schema(ret)
  /\ call' = [call EXCEPT !.applied = Append(@, "ai_generate")]
  /\ UNCHANGED <<store_vars, now, proc_vars, train_vars>>

\* ai_train.main up to ensure_schema(conn)
TrainEnsureSchema ==
  /\ call.fn = "ensure_schema"
  /\ Len(call.applied) < MaxApplications
  /\ ret' = train_ensure_schema(ret)
  /\ call' = [call EXCEPT !.applied = Append(@, "ai_train")]
  /\ UNCHANGED <<store_vars, now, proc_vars, train_vars>>

NextSchema == GenerateEnsureSchema \/ TrainEnsureSchema

SpecSchema == InitSchema /\ [][NextSchema]_vars

(***************************************************************************)
(* Properties                                                              *)
(***************************************************************************)
RowsOf(cid) == SelectSeq(telemetry, LAMBDA r : r.customer_id = cid)
TimesOf(cid) == {fromisoformat(r.ts) : r \in RowSet(RowsOf(cid))}

\* C2: after any sequence of generator runs the timestamps of each customer are
\* distinct and 15 minutes apart, with no slot missing between first and last.
TimestampsConsecutivePerCustomer ==
  \A c \in customers :
    /\ Cardinality(TimesOf(c.id)) = Len(RowsOf(c.id))
    /\ \A t \in TimesOf(c.id) :
         \/ \A u \in TimesOf(c.id) : t <= u
         \/ t - IntervalSeconds \in TimesOf(c.id)

\* C3: the ticks a continuous-mode process writes are consecutive 15-minute
\* boundaries, none skipped and none twice, whatever time a tick takes.
RealtimeTicksConsecutiveBoundaries ==
  args.realtime =>
    \A i \in 1..(Len(emitted) - 1) : emitted[i + 1] = emitted[i] + IntervalSeconds

\* C4: at every moment, a crash inside a tick included, the visible store holds
\* for each timestamp either the row of every customer or no row at all.
TickAllOrNothing ==
  \A t \in {r.ts : r \in RowSet(telemetry)} :
    \A c \in customers : \E r \in RowSet(telemetry) : r.customer_id = c.id /\ r.ts = t

\* the generator was killed with part of a tick inserted, after an earlier tick
TickAllOrNothingWitness ==
  /\ pc = "rolled_back"
  /\ Cardinality(customers) >= 2
  /\ telemetry # <<>>

IsPrefix(a, b) == Len(a) <= Len(b) /\ SubSeq(b, 1, Len(a)) = a

\* C5 as stated: no operation ever removes or changes a stored telemetry row.
TelemetryAppendOnly == [][IsPrefix(telemetry, telemetry')]_vars

\* C5, amended: every step keeps the stored rows and only appends, except the start
\* of a generator run with --reset-customers, which deletes them all.
AppendOnlyUnlessReset ==
  [][\/ IsPrefix(telemetry, telemetry')
     \/ \E a \in ResetArgs : Start(a)]_vars

\* a run commits a tick on top of the rows an earlier run left
AppendOnlyUnlessResetWitness ==
  /\ emitted # <<>>
  /\ Len(telemetry) > Len(emitted) * Len(loaded)

WithHistory == {c \in customers : \E r \in RowSet(telemetry) : r.customer_id = c.id}

\* C6: a trainer run ends with the insufficient-data exit exactly when its sample
\* count is below the threshold (200 pairs, 10 customers with telemetry), proceeds
\* at exactly the threshold, and writes no artifact when it aborts.
AbortIffBelowThreshold ==
  [][/\ \A days \in TrainDays, l2 \in TrainL2, seed \in Seeds :
          TrainNext(days, l2, seed) =>
            /\ last_exit'.status = "SystemExit" <=>
                 Len(load_training_pairs(telemetry, load_customers(customers),
                                         isoformat(now - days * DaySeconds))) < 200
            /\ last_exit'.status = "SystemExit" => artifact_next' = artifact_next
     /\ \A l2 \in TrainL2 :
          TrainPower(l2) =>
            /\ last_exit'.status = "SystemExit" <=> Cardinality(WithHistory) < 10
            /\ last_exit'.status = "SystemExit" => artifact_power' = artifact_power]_vars

\* both trainers went through on a store with exactly 10 customers and 200 pairs
AbortIffBelowThresholdWitness ==
  /\ Cardinality(WithHistory) = 10
  /\ artifact_power # None /\ artifact_power[1].n_train = 10
  /\ artifact_next # None /\ artifact_next[1].n_train + artifact_next[1].n_test = 200

\* C7: a trainer run that ends in an error (no customers, insufficient data,
\* singular matrix) ends there and leaves both artifact files as they were.
TrainingErrorsAreTerminal ==
  [][(/\ \/ \E days \in TrainDays, l2 \in TrainL2, seed \in Seeds : TrainNext(days, l2, seed)
         \/ \E l2 \in TrainL2 : TrainPower(l2)
      /\ last_exit'.status \in {"SystemExit", "ValueError"}) =>
       /\ artifact_next' = artifact_next
       /\ artifact_power' = artifact_power]_vars

\* a run failed on a singular matrix and the artifact of an earlier run is still there
TrainingErrorsAreTerminalWitness ==
  /\ last_exit.proc = "ai_train"
  /\ last_exit.status = "ValueError"
  /\ artifact_next # None /\ artifact_next[1].l2 > 0

\* C8: in both pipelines r2 is 0 when SS_tot of the targets is zero and
\* 1 - SS_res / SS_tot otherwise.
R2ZeroOnConstantTarget ==
  (call.fn = "metrics" /\ ret # None) =>
    LET n == Len(call.y_true)
        tot == SsTot(call.y_true)
        res == SsRes(call.y_true, call.y_pred)
        r2 == ret[1].r2
    IN  IF tot = 0 THEN r2[1] = 0 /\ r2[2] # 0
        ELSE r2[2] # 0 /\ r2[1] * tot = (tot - n * n * res) * r2[2]

\* k is the ceiling of base / 850000 as the double product can give it: the least
\* whole number not below it, or the next one when the exact value is whole
IsCeilTenths(k, base) ==
  \/ k * 850000 >= base /\ (k - 1) * 850000 < base
  \/ (k - 1) * 850000 = base

\* C9 as stated: the kVA terms of zero statistics enter the maximum as zero.
IdealKvaFormula ==
  (call.fn = "target_ideal_kva" /\ ret # None) =>
    LET base == Max(100 * call.peak_watts_30d, 187 * call.avg_watts_30d)
                  * (100 + SegMargin(call.customer.segment))
    IN  /\ \E k \in 0..MaxKvaTenths :
             /\ IsCeilTenths(k, base)
             /\ ret[1] = Min(600, Max(10, k))
        /\ ret[1] >= 10 /\ ret[1] <= 600

\* C9, amended: a statistic of zero contributes the term 1.0 kVA instead of its
\* formula; the rest is as stated and the result lies in [1, 60].
IdealKvaFormulaWithFallback ==
  (call.fn = "target_ideal_kva" /\ ret # None) =>
    LET peak_term == IF call.peak_watts_30d = 0 THEN 85000 ELSE 100 * call.peak_watts_30d
        avg_term == IF call.avg_watts_30d = 0 THEN 85000 ELSE 187 * call.avg_watts_30d
        base == Max(peak_term, avg_term) * (100 + SegMargin(call.customer.segment))
    IN  /\ \E k \in 0..MaxKvaTenths :
             /\ IsCeilTenths(k, base)
             /\ ret[1] = Min(600, Max(10, k))
        /\ ret[1] >= 10 /\ ret[1] <= 600

\* both statistics are zero and the result is above the lower clamp
IdealKvaFormulaWithFallbackWitness ==
  /\ call.fn = "target_ideal_kva" /\ ret # None
  /\ call.peak_watts_30d = 0 /\ call.avg_watts_30d = 0
  /\ ret[1] > 10


Appended(e) == SubSeq(e.after, Len(e.before) + 1, Len(e.after))

\* C11: a batch call of generate_steps with N customers and S steps appends
\* exactly N * S rows to the store, exactly one for every pair of a customer
\* and a timestamp start + k * 15 min with k in 0..S-1, and no other row.
BatchAppendsOneRowPerCustomerAndStep ==
  \A n \in 1..Len(ret) :
    LET e == ret[n]
        cs == call.customers
        new == Appended(e)
    IN  /\ IsPrefix(e.before, e.after)
        /\ Len(new) = Len(cs) * call.steps
        /\ \A i \in 1..Len(cs), k \in 0..(call.steps - 1) :
             Cardinality({j \in 1..Len(new) :
                            /\ new[j].customer_id = cs[i].id
                            /\ new[j].ts = isoformat(call.start_ts + k * IntervalSeconds)}) = 1

BatchAppendsOneRowPerCustomerAndStepWitness ==
  /\ Len(ret) >= 1
  /\ Len(call.customers) = 2
  /\ call.steps = 2
  /\ Len(Appended(ret[1])) = 4
  /\ ret[1].before # <<>>

\* C12: generation is deterministic: two executions of generate_steps given
\* the same seed, the same profile set and the same start timestamp append
\* identical sequences of rows.
SameSeedSameRows ==
  Len(ret) = 2 => Appended(ret[1]) = Appended(ret[2])

Artifacts == {a[1] : a \in {artifact_next, artifact_power} \ {None}}

\* C13: in both training pipelines the first floor(0.8 n) shuffled sample
\* indices are used to fit and the remaining ones only to evaluate: the two
\* index sets are disjoint, together cover all n samples, and the metrics of
\* the artifact are computed on held-out samples only.
MetricsOnHeldOutSamples ==
  \A a \in Artifacts :
    LET fit == SeqToSet(a.fit_on)
        held == SeqToSet(a.metrics_on)
    IN  /\ Len(a.fit_on) = (8 * a.n) \div 10
        /\ fit \cap held = {}
        /\ fit \cup held = 0..(a.n - 1)

\* the feature name that stands for an entry computed from the expression e
NameOf(e) ==
  CASE e = "t_simple" -> "tariff_simples"
    [] e = "t_bi" -> "tariff_bihorario"
    [] e \in {"s_res", "seg_res"} -> "segment_residential"
    [] e \in {"s_sme", "seg_sme"} -> "segment_sme"
    [] e \in {"s_ind", "seg_ind"} -> "segment_industrial"
    [] e = "peak30" -> "peak_watts_30d"
    [] e = "avg30" -> "avg_watts_30d"
    [] OTHER -> e

NamedBy(names, feats) ==
  /\ Len(feats) = Len(names)
  /\ \A i \in 1..Len(feats) : NameOf(feats[i].of) = names[i]

\* C14: every artifact has as many weights, means and stds as feature names
\* (17 next-step, 10 power sizing), and the i-th feature name names the i-th
\* entry of every feature vector the trainer builds.
ArtifactSchemaMatchesFeatures ==
  /\ \A a \in Artifacts :
       /\ a.shape.weights = Len(a.feature_names)
       /\ a.shape.mean = Len(a.feature_names)
       /\ a.shape.std = Len(a.feature_names)
  /\ artifact_next # None =>
       /\ Len(artifact_next[1].feature_names) = 17
       /\ \A c \in customers, r \in RowSet(telemetry) :
            r.customer_id = c.id =>
              \A temp_c \in {None, Some(r.temp_c)} :
                NamedBy(artifact_next[1].feature_names,
                        make_features(fromisoformat(r.ts), c, r.watts, temp_c))
  /\ artifact_power # None =>
       /\ Len(artifact_power[1].feature_names) = 10
       /\ \A c \in WithHistory :
            LET st == get_stats_30d(telemetry, c.id, get_latest_ts(telemetry, c.id)[1])
            IN  NamedBy(artifact_power[1].feature_names, power_feats(c, st.peak, st.avg))

ArtifactSchemaMatchesFeaturesWitness ==
  /\ artifact_next # None /\ artifact_next[1].shape.weights = 17
  /\ artifact_power # None /\ artifact_power[1].shape.weights = 10
  /\ Cardinality(WithHistory) = 11

MatMul(b, a) ==
  [i \in 1..Len(b) |-> [j \in 1..Len(a) |->
     QSumOf([k \in 1..Len(a) |-> QMul(b[i][k], a[k][j])])]]

HasZeroColumn(a) == \E j \in 1..Len(a) : \A i \in 1..Len(a) : a[i][j] = Q(0, 1)

\* C15: invert_matrix(A) either returns a matrix B with B x A = identity, in
\* exact arithmetic, or raises the singular-matrix error; it raises for every
\* matrix with an all-zero column.
InverseOrSingular ==
  (call.fn = "invert_matrix" /\ ret # None) =>
    /\ ~ret[1].raised => MatMul(ret[1].inv, call.a) = identity(Len(call.a))
    /\ HasZeroColumn(call.a) => ret[1].raised

\* z * std + mean = v, for z = num / sqrt(rad) and std = sqrt(s): the product
\* num * sqrt(s / rad) has the sign of num and the square num^2 * s / rad
RoundTrips(z, s, mean, v) ==
  LET back == QSub(v, mean)
  IN  /\ z.rad[1] > 0
      /\ (z.num[1] > 0) = (back[1] > 0)
      /\ (z.num[1] < 0) = (back[1] < 0)
      /\ QMul(QMul(z.num, z.num), s) = QMul(QMul(back, back), z.rad)

ConstantColumn(x, j) == \A i \in 1..Len(x) : x[i][j] = x[1][j]

InDomain(c) ==
  /\ c.segment \in SeqToSet(SEGMENTS)
  /\ c.contracted_power_kva \in ContractedTiers(c.segment)
  /\ c.price_eur_per_kwh >= 80 /\ c.price_eur_per_kwh <= 450

\* C17: a profile with a field outside its domain (unknown segment, contracted
\* power outside the segment's tiers, price outside [0.08, 0.45]) is rejected
\* with a validation error when it is constructed from a stored row.
ProfileOutsideDomainRejected ==
  (call.fn = "load_customers" /\ ret # None /\ \E c \in customers : ~InDomain(c))
    => ret[1].raised

InWindow(cid, since) ==
  {r \in RowSet(telemetry) : r.customer_id = cid /\ TextLeq(since, r.ts)}

\* C18: load_training_pairs walks each customer's readings of the window in
\* increasing timestamp order: a customer with n >= 3 readings contributes
\* exactly n - 1 pairs, the i-th with the features (last_watts, temperature,
\* timestamp) of reading i and the watts of reading i + 1 of the same customer
\* as target; a customer with fewer than 3 readings contributes none.
PairsAreConsecutiveReadings ==
  \A days \in TrainDays :
    LET since == isoformat(now - days * DaySeconds)
        pairs == load_training_pairs(telemetry, load_customers(customers), since)
    IN  /\ \A c \in customers :
             LET rs == InWindow(c.id, since)
                 mine == {i \in 1..Len(pairs) : pairs[i].customer_id = c.id}
             IN  /\ Cardinality(mine) = IF Cardinality(rs) >= 3 THEN Cardinality(rs) - 1 ELSE 0
                 /\ \A i \in mine :
                      \E r, s \in rs :
                        /\ fromisoformat(r.ts) = pairs[i].ts
                        /\ pairs[i].last_watts = r.watts /\ pairs[i].temp_c = r.temp_c
                        /\ pairs[i].target = s.watts
                        /\ TextLess(r.ts, s.ts)
                        /\ \A q \in rs : ~(TextLess(r.ts, q.ts) /\ TextLess(q.ts, s.ts))
                 /\ \A i, j \in mine : i < j => pairs[i].ts < pairs[j].ts
        /\ \A i \in 1..Len(pairs) : \E c \in customers : pairs[i].customer_id = c.id

\* a store whose rows are not in timestamp order, one customer with 3 readings
PairsAreConsecutiveReadingsWitness ==
  /\ last_exit.proc = "ai_train"
  /\ \E i \in 1..(Len(telemetry) - 1) : TextLess(telemetry[i + 1].ts, telemetry[i].ts)
  /\ \E c \in customers : Cardinality(InWindow(c.id, isoformat(now - 14 * DaySeconds))) = 3
  /\ Len(load_training_pairs(telemetry, load_customers(customers),
                              isoformat(now - 14 * DaySeconds))) >= 2

\* C19: _next_15m_boundary(t) returns a grid-aligned instant b with
\* t <= b < t + 15 min, and b = t only when t is itself on a boundary, so the
\* boundary continuous mode targets is never in the past.
NextBoundaryNotInPast ==
  (call.fn = "_next_15m_boundary" /\ ret # None) =>
    LET t == call.ts
        b == ret[1]
    IN  /\ b % IntervalSeconds = 0
        /\ t <= b
        /\ b < t + IntervalSeconds
        /\ b = t => t % IntervalSeconds = 0

\* the watts of the readings of customer cid with its latest timestamp, None if it has none
LatestReadings(cid) ==
  LET mine == {r \in RowSet(telemetry) : r.customer_id = cid}
  IN  IF mine = {} THEN {None} ELSE {Some(r.watts) : r \in {x \in mine : x.ts = MaxTs(mine)}}

\* the generator state when the i-th customer of the tick is simulated
RECURSIVE RngAt(_)
RngAt(i) == IF i = 1 THEN rng ELSE rng_draws(RngAt(i - 1), cur_ts, loaded[i - 1]).rng

\* C20: at every tick of generate_steps the previous_watts passed for a customer
\* is the watts of that customer's most recent reading (the row of the preceding
\* tick of this run, otherwise the stored row with its latest timestamp), and
\* is absent, the instantaneous load standing in, exactly when the customer
\* has no earlier reading.
PreviousWattsIsLatestReading ==
  [][Build =>
       \A i \in 1..Len(loaded) :
         LET c == loaded[i]
             prev == Get(last_by_customer, c.id)
         IN  /\ prev \in LatestReadings(c.id)
             /\ prev = None <=> \A r \in RowSet(telemetry) : r.customer_id # c.id
             /\ Len(emitted) > 0 /\ ~args.realtime =>
                   \E r \in RowSet(telemetry) :
                     /\ r.customer_id = c.id /\ r.watts = prev[1]
                     /\ r.ts = isoformat(cur_ts - IntervalSeconds)
             /\ rows'[i].watts =
                   simulate_watts(cur_ts, c, prev, rng_draws(RngAt(i), cur_ts, c).d).watts]_vars

\* the second tick of a batch run has been built on a store that held rows before the run
PreviousWattsIsLatestReadingWitness ==
  /\ pc = "insert" /\ ~args.realtime
  /\ Len(emitted) = 1
  /\ Len(telemetry) > Len(loaded)

ColumnNames(t) == {t.columns[i].name : i \in 1..Len(t.columns)}

\* new holds everything old holds, and nothing beyond what the two
\* ensure_schema functions define
AdditiveOnly(old, new) ==
  /\ \A name \in DOMAIN old.tables :
       /\ name \in DOMAIN new.tables
       /\ LET t == old.tables[name]
              u == new.tables[name]
          IN  /\ Len(u.columns) >= Len(t.columns)
              /\ \A i \in 1..Len(t.columns) : u.columns[i] = t.columns[i]
              /\ \A i \in (Len(t.columns) + 1)..Len(u.columns) :
                   /\ u.columns[i].name \notin ColumnNames(t)
                   /\ \E j \in 1..Len(GenerateCompatColumns) : u.columns[i] = GenerateCompatColumns[j]
              /\ Len(u.rows) = Len(t.rows)
              /\ \A i \in 1..Len(t.rows) :
                   /\ DOMAIN u.rows[i] = ColumnNames(u)
                   /\ \A n \in ColumnNames(t) : u.rows[i][n] = t.rows[i][n]
                   /\ \A j \in (Len(t.columns) + 1)..Len(u.columns) :
                        u.rows[i][u.columns[j].name] = DefaultValue(u.columns[j])
  /\ \A name \in DOMAIN new.tables \ DOMAIN old.tables :
       /\ name \in {"customers", "customer_telemetry_15m"}
       /\ new.tables[name].rows = <<>>
  /\ old.indexes \subseteq new.indexes
  /\ new.indexes \subseteq old.indexes \cup {TelemetryIndex}

\* C21: every application of either ensure_schema, in any order, keeps every
\* table, column (position and definition) and row value, adds only missing
\* tables, missing columns filled with their default and the index, and applying
\* the same ensure_schema again right after changes nothing.
SchemaSetupAdditiveIdempotent ==
  [][call'.applied # call.applied =>
       /\ AdditiveOnly(ret, ret')
       /\ {"customers", "customer_telemetry_15m"} \subseteq DOMAIN ret'.tables
       /\ TelemetryIndex \in ret'.indexes
       /\ IF call'.applied[Len(call'.applied)] = "ai_generate"
            THEN generate_ensure_schema(ret') = ret'
            ELSE train_ensure_schema(ret') = ret']_vars

\* a legacy customers row, its home_area_m2 under the older definition, after
\* the trainer and then the generator added their missing columns
SchemaSetupAdditiveIdempotentWitness ==
  /\ call.fn = "ensure_schema"
  /\ Len(call.applied) = 3
  /\ call.applied[1] = "ai_train" /\ call.applied[2] = "ai_generate"
  /\ LET t == ret.tables["customers"]
     IN  /\ Len(t.rows) = 1
         /\ \E i \in 1..Len(t.columns) : t.columns[i] = Col("home_area_m2", "INTEGER", FALSE, None)
         /\ t.rows[1]["id"] = Some([storage |-> "stored", literal |-> "customer"])
         /\ t.rows[1]["ev_count"] = Some([storage |-> "INTEGER", literal |-> "0"])
         /\ t.rows[1]["price_eur_per_kwh"] = Some([storage |-> "REAL", literal |-> "0.2"])

\* C22: whatever generator runs (batch and continuous) produced the telemetry,
\* in every training pair of the next-step pipeline the reading that supplies
\* the target is timestamped exactly 15 minutes after the reading that supplies
\* the features.
PairsAreNextIntervalPairs ==
  pc \in {"stopped", "killed", "rolled_back"} =>
    \A days \in TrainDays :
      LET pairs == load_training_pairs(telemetry, load_customers(customers),
                                       isoformat(now - days * DaySeconds))
      IN  \A i \in 1..Len(pairs) : pairs[i].target_ts = pairs[i].ts + IntervalSeconds

\* C23 as stated: target_ideal_kva is non-decreasing in each statistic, zero
\* included: peak1 <= peak2 and avg1 <= avg2 give
\* target_ideal_kva(peak1, avg1) <= target_ideal_kva(peak2, avg2).
IdealKvaMonotone ==
  (call.fn = "target_ideal_kva" /\ "first" \in DOMAIN call /\ ret # None) =>
    ret[1].first <= ret[1].second

\* C23: target_ideal_kva is non-decreasing in each statistic over positive
\* statistics: 0 < peak1 <= peak2 and 0 < avg1 <= avg2 give
\* target_ideal_kva(peak1, avg1) <= target_ideal_kva(peak2, avg2); and a
\* statistic of zero gives what the statistic worth 1.0 kVA gives (a peak of
\* 850 W), which is not below what smaller positive statistics give.
IdealKvaMonotoneOverPositive ==
  (call.fn = "target_ideal_kva" /\ "first" \in DOMAIN call /\ ret # None) =>
    /\ (call.first.peak_watts_30d > 0 /\ call.first.avg_watts_30d > 0)
         => ret[1].first <= ret[1].second
    /\ \A up \in BOOLEAN :
         target_ideal_kva(call.customer, 0, call.first.avg_watts_30d, up)
           = target_ideal_kva(call.customer, 850, call.first.avg_watts_30d, up)

\* two positive pairs with different results, the first pair below the fallback
IdealKvaMonotoneOverPositiveWitness ==
  /\ call.fn = "target_ideal_kva" /\ "first" \in DOMAIN call /\ ret # None
  /\ call.first.peak_watts_30d = 1 /\ call.first.avg_watts_30d = 1
  /\ call.second.peak_watts_30d = 5000 /\ call.second.avg_watts_30d = 1200
  /\ ret[1].first = 10 /\ ret[1].second = 64

\* C24 as stated: in continuous mode every tick starts from the generator
\* freshly seeded with the seed, so with an unchanged customer list the draws
\* consumed at any tick are identical to the draws consumed at the first tick.
TicksConsumeIdenticalDraws ==
  call.fn = "realtime" =>
    \A i \in 1..Len(ret) :
      /\ ret[i].rng_start = Random(call.seed)
      /\ ret[i].drawn = ret[1].drawn

\* whether customer c makes the EV draw at time t
InEvWindow(c, t) == c.ev_count > 0 /\ QuarterOfDay(t) <= 24

\* C24: in continuous mode every tick starts from the generator freshly seeded
\* with the seed and the stream never advances from one tick to the next: the
\* k-th draw of any tick is the k-th draw of the first tick as far as both
\* ticks draw, and the draws consumed are identical for ticks at which every
\* customer is on the same side of the EV charging window (0 <= hour <= 6).
TicksRestartTheStream ==
  call.fn = "realtime" =>
    \A i \in 1..Len(ret) :
      /\ ret[i].rng_start = Random(call.seed)
      /\ ret[i].drawn # <<>>
      /\ \A k \in 1..Min(Len(ret[i].drawn), Len(ret[1].drawn)) : ret[i].drawn[k] = ret[1].drawn[k]
      /\ (\A n \in 1..Len(call.customers) :
            InEvWindow(call.customers[n], ret[i].ts) <=> InEvWindow(call.customers[n], ret[1].ts))
           => ret[i].drawn = ret[1].drawn

\* three ticks of two customers, the last of them at another timestamp than
\* the first with the same draws
TicksRestartTheStreamWitness ==
  /\ call.fn = "realtime"
  /\ Len(ret) = 3
  /\ Len(call.customers) = 2
  /\ ret[3].ts > ret[1].ts
  /\ ret[3].rng_start = ret[1].rng_start
  /\ ret[3].drawn = ret[1].drawn
  /\ Len(ret[3].drawn) >= 6
  /\ Len(telemetry) = 6

====
